---------------------------- MODULE Spec2Model ----------------------------
(***************************************************************************)
(* A model of the AI backend of src/src/aiBackend: the query-understanding *)
(* rules, the SQL validation of the data analyst, the ad-hoc query         *)
(* workflow of the orchestrator and the preference store.                  *)
(*                                                                         *)
(* Texts are TLA+ strings; Len, SubSeq and \o act on them character by     *)
(* character.  A Python value that may be None is modelled as a tuple:     *)
(* None is <<>> and a value x is <<x>>.  Confidence, a float between 0 and *)
(* 1 in the code, is counted in hundredths.                                *)
(***************************************************************************)
EXTENDS Integers, Sequences, FiniteSets, TLC

VARIABLES
    pc,                 \* position of the operation in progress
    query,              \* the natural-language query of the request
    gateway,            \* what the AI Gateway answered to understand_query
    query_intent,       \* understand_query's result: None or Some(intent)
    user_preferences,   \* the preference rows read for the request
    sql_text,           \* what the AI Gateway answered to generate_sql_query
    sql_query,          \* generate_sql_query's result: None or Some(text)
    data,               \* execute_query's rows
    insights,           \* generate_insights' list
    visualizations,     \* create_visualizations' list
    log_result,         \* how the interaction-log write ended
    stages,             \* the stages of the request that have run, in order
    result,             \* the response of process_user_query
    served,             \* number of requests taken so far
    user_interactions,  \* table user_interactions
    preferences_table,  \* table user_preferences
    next_pref_id,       \* the SERIAL of user_preferences.id
    saves,              \* the save_user_preference calls that returned, in order
    upserts,            \* the save_user_preference calls in progress, per service instance
    alert_configurations, \* table alert_configurations
    ai_insights,        \* table ai_insights
    call                \* the arguments and the outcome of the one operation under study

vars == <<pc, query, gateway, query_intent, user_preferences, sql_text, sql_query,
          data, insights, visualizations, log_result, stages, result, served,
          user_interactions, preferences_table, next_pref_id, saves,
          upserts, alert_configurations, ai_insights, call>>

queryVars == <<query, gateway, query_intent, user_preferences, sql_text, sql_query,
               data, insights, visualizations, log_result, stages, result, served,
               user_interactions>>

prefVars == <<preferences_table, next_pref_id, saves>>

extraVars == <<upserts, alert_configurations, ai_insights, call>>

-----------------------------------------------------------------------------
(* Python values *)

None == <<>>
Some(x) == <<x>>
Get(o) == o[1]

-----------------------------------------------------------------------------
(* Text: str.lower, str.upper, str.strip, str.replace, `in`, startswith *)

LowerAlpha == "abcdefghijklmnopqrstuvwxyz"
UpperAlpha == "ABCDEFGHIJKLMNOPQRSTUVWXYZ"
Whitespace == {" ", "\n", "\t"}

CharAt(s, i) == SubSeq(s, i, i)

MapChar(c, from, to) ==
    IF \E i \in 1..Len(from) : CharAt(from, i) = c
    THEN CharAt(to, CHOOSE i \in 1..Len(from) : CharAt(from, i) = c)
    ELSE c

RECURSIVE MapStr(_, _, _)
MapStr(s, from, to) ==
    IF Len(s) = 0 THEN ""
    ELSE MapChar(CharAt(s, 1), from, to) \o MapStr(SubSeq(s, 2, Len(s)), from, to)

Lower(s) == MapStr(s, UpperAlpha, LowerAlpha)
Upper(s) == MapStr(s, LowerAlpha, UpperAlpha)

RECURSIVE LStrip(_)
LStrip(s) ==
    IF Len(s) > 0 /\ CharAt(s, 1) \in Whitespace THEN LStrip(SubSeq(s, 2, Len(s))) ELSE s

RECURSIVE RStrip(_)
RStrip(s) ==
    IF Len(s) > 0 /\ CharAt(s, Len(s)) \in Whitespace
    THEN RStrip(SubSeq(s, 1, Len(s) - 1)) ELSE s

Strip(s) == RStrip(LStrip(s))

\* w in s
Contains(s, w) ==
    \E i \in 1..(Len(s) - Len(w) + 1) : SubSeq(s, i, i + Len(w) - 1) = w

StartsWith(s, w) == Len(s) >= Len(w) /\ SubSeq(s, 1, Len(w)) = w
EndsWith(s, w) == Len(s) >= Len(w) /\ SubSeq(s, Len(s) - Len(w) + 1, Len(s)) = w

\* any(word in s for word in words)
ContainsAny(s, words) == \E i \in 1..Len(words) : Contains(s, words[i])

\* period.replace(" ", "_")
SpaceToUnderscore(s) == MapStr(s, " ", "_")

-----------------------------------------------------------------------------
(* Query Understanding: agents/query_understanding.py *)

time_patterns ==
    <<"today", "yesterday", "this week", "last week",
      "this month", "last month", "this year", "last year">>

category_keywords ==
    << [category |-> "food",
        keywords |-> <<"food", "restaurant", "dining", "coffee", "lunch", "dinner", "grocery">>],
       [category |-> "entertainment",
        keywords |-> <<"movie", "game", "entertainment", "netflix", "spotify", "subscription">>],
       [category |-> "transportation",
        keywords |-> <<"gas", "fuel", "uber", "lyft", "taxi", "transport", "parking">>],
       [category |-> "shopping",
        keywords |-> <<"amazon", "store", "shopping", "retail", "clothes", "clothing">>],
       [category |-> "utilities",
        keywords |-> <<"electric", "water", "internet", "phone", "utility", "bill">>],
       [category |-> "healthcare",
        keywords |-> <<"doctor", "pharmacy", "medical", "health", "hospital">>],
       [category |-> "education",
        keywords |-> <<"school", "university", "course", "book", "education", "learning">>] >>

trend_words == <<"trend", "over time", "change", "increase", "decrease">>
category_words == <<"category", "breakdown", "spend on", "where">>
improvement_words == <<"improve", "better", "worse", "progress", "doing">>
visualization_keywords == <<"chart", "graph", "visual", "show", "plot", "display">>
urgent_keywords == <<"urgent", "important", "asap", "quickly", "immediately">>

DefaultPriority == 3
UrgentPriority == 5
ConfidenceWithoutAI == 70
ConfidenceDefaultWithAI == 80

\* `if ai_understanding`: a dict is true when it is not None and not empty
Truthy(ai) == ai # None /\ DOMAIN Get(ai) # {}

\* `ai_understanding and "field" in ai_understanding`
Supplies(ai, field) == Truthy(ai) /\ field \in DOMAIN Get(ai)

\* _ai_understand_query: the structured response, None when the call raises
_ai_understand_query(g) == IF g.kind = "object" THEN Some(g.object) ELSE None

RuleAnalysisType(q) ==
    IF ContainsAny(q, trend_words) THEN "spending_trends"
    ELSE IF ContainsAny(q, category_words) THEN "category_analysis"
    ELSE IF ContainsAny(q, improvement_words) THEN "improvement"
    ELSE "general"

_determine_analysis_type(q, ai) ==
    IF Supplies(ai, "analysis_type") THEN Get(ai)["analysis_type"] ELSE RuleAnalysisType(q)

RuleTimePeriod(q) ==
    IF \E i \in 1..Len(time_patterns) : Contains(q, time_patterns[i])
    THEN LET first == CHOOSE i \in 1..Len(time_patterns) :
                          /\ Contains(q, time_patterns[i])
                          /\ \A j \in 1..(i - 1) : ~Contains(q, time_patterns[j])
         IN  SpaceToUnderscore(time_patterns[first])
    ELSE "this_month"

_extract_time_period(q, ai) ==
    IF Supplies(ai, "time_period") THEN Get(ai)["time_period"] ELSE RuleTimePeriod(q)

RECURSIVE RuleCategoriesFrom(_, _)
RuleCategoriesFrom(q, i) ==
    IF i > Len(category_keywords) THEN <<>>
    ELSE (IF ContainsAny(q, category_keywords[i].keywords)
          THEN <<category_keywords[i].category>> ELSE <<>>)
         \o RuleCategoriesFrom(q, i + 1)

RuleCategories(q) == RuleCategoriesFrom(q, 1)

_extract_categories(q, ai) ==
    IF Supplies(ai, "categories") THEN Get(ai)["categories"] ELSE RuleCategories(q)

\* a variant: "show" left out of the visualization keywords
RuleNeedsVisualizationNoShow(q) ==
    ContainsAny(q, <<"chart", "graph", "visual", "plot", "display">>)

RuleNeedsVisualization(q) == ContainsAny(q, visualization_keywords)

_needs_visualization(q, ai) ==
    IF Supplies(ai, "needs_visualization") THEN Get(ai)["needs_visualization"]
    ELSE RuleNeedsVisualization(q)

RulePriority(q) == IF ContainsAny(q, urgent_keywords) THEN UrgentPriority ELSE DefaultPriority

_determine_priority(q, ai) ==
    IF Supplies(ai, "priority") THEN Get(ai)["priority"] ELSE RulePriority(q)

\* ai_understanding.get("confidence", 0.8) if ai_understanding else 0.7
Confidence(ai) ==
    IF Truthy(ai)
    THEN (IF "confidence" \in DOMAIN Get(ai) THEN Get(ai)["confidence"]
          ELSE ConfidenceDefaultWithAI)
    ELSE ConfidenceWithoutAI

\* the intent dict built by understand_query
BuildIntent(text, ai) ==
    LET q == Strip(Lower(text))
    IN  [original_query      |-> text,
         analysis_type       |-> _determine_analysis_type(q, ai),
         time_period         |-> _extract_time_period(q, ai),
         categories          |-> _extract_categories(q, ai),
         needs_visualization |-> _needs_visualization(q, ai),
         priority            |-> _determine_priority(q, ai),
         confidence          |-> Confidence(ai)]

\* a variant: a failing gateway call is not caught where it is made, so that
\* understand_query's own handler turns it into None
understand_query_uncaught(q, g) ==
    IF q = None \/ g.kind = "raise" THEN None
    ELSE Some(BuildIntent(Get(q), _ai_understand_query(g)))

\* understand_query: the intent; None when building it raised, which query.lower()
\* does for a query that is no text
understand_query(q, g) ==
    IF q = None THEN None ELSE Some(BuildIntent(Get(q), _ai_understand_query(g)))


-----------------------------------------------------------------------------
(* Inputs of understand_query *)

\* the queries of test_query_understanding, and others that reach every rule
Queries ==
    { "Show me my coffee spending this month",
      "How much did I spend on food last week?",
      "Am I spending more or less than usual?",
      "What are my biggest expenses?",
      "  URGENT: plot the trend of my gas bill today\n",
      "Where am I doing better this year",
      "" }

\* a query is a text, or (None) a value that is no text
QueryInputs == {Some(t) : t \in Queries} \cup {None}

AIFields ==
    {"analysis_type", "time_period", "categories", "needs_visualization",
     "priority", "confidence"}

\* complete answers; the model is free to answer outside the ranges it was asked for
CompleteObjects ==
    [analysis_type : {"improvement", "forecast"},
     time_period : {"last_week"},
     categories : {<<"food">>},
     needs_visualization : BOOLEAN,
     priority : {4, 9},
     confidence : {90, 150}]

\* every answer with some of the fields missing, the empty object included
AIObjects == {[k \in S |-> full[k]] : full \in CompleteObjects, S \in SUBSET AIFields}

\* generate_structured_response raised, returned None, or returned an object
GatewayAnswers ==
    {[kind |-> "raise"], [kind |-> "null"]} \cup {[kind |-> "object", object |-> o] : o \in AIObjects}

NoAnswer == [kind |-> "not called"]
NoResponse == [pending |-> TRUE]

-----------------------------------------------------------------------------
(* understand_query on its own *)

QueryIdle ==
    /\ user_preferences = <<>>
    /\ sql_text = None
    /\ sql_query = None
    /\ data = <<>>
    /\ insights = <<>>
    /\ visualizations = <<>>
    /\ log_result = "not called"
    /\ stages = <<>>
    /\ result = NoResponse
    /\ served = 0
    /\ user_interactions = <<>>

PrefIdle ==
    /\ preferences_table = {}
    /\ next_pref_id = 1
    /\ saves = <<>>

ExtraIdle ==
    /\ upserts = <<>>
    /\ alert_configurations = {}
    /\ ai_insights = <<>>
    /\ call = <<>>

InitUnderstand ==
    /\ pc = "understand_query"
    /\ query \in QueryInputs
    /\ gateway = NoAnswer
    /\ query_intent = None
    /\ QueryIdle
    /\ PrefIdle
    /\ ExtraIdle

\* query.lower() raises on a value that is no text, before the gateway is called
UnderstandCall ==
    /\ pc = "understand_query"
    /\ \E g \in GatewayAnswers :
          /\ gateway' = IF query = None THEN NoAnswer ELSE g
          /\ query_intent' = understand_query(query, g)
    /\ pc' = "returned"
    /\ UNCHANGED <<query, user_preferences, sql_text, sql_query, data, insights,
                   visualizations, log_result, stages, result, served,
                   user_interactions>>
    /\ UNCHANGED prefVars
    /\ UNCHANGED extraVars

NextUnderstand == UnderstandCall

SpecUnderstand == InitUnderstand /\ [][NextUnderstand]_vars

-----------------------------------------------------------------------------
(* Claims about understand_query, under SpecUnderstand *)

GatewayUnavailable == gateway.kind \in {"raise", "null"}

AnalysisTypes == {"spending_trends", "category_analysis", "improvement", "general"}

\* C5: for every text query, when the AI Gateway call raises or returns null,
\* understand_query returns a non-null intent whose analysis_type, time_period,
\* categories, needs_visualization and priority are those of the keyword rules
\* and whose confidence is 0.7.
C5_FallbackIntent ==
    (pc = "returned" /\ query # None /\ GatewayUnavailable) =>
        /\ query_intent # None
        /\ LET i == Get(query_intent)
               q == Strip(Lower(Get(query)))
           IN  /\ i.original_query = Get(query)
               /\ i.analysis_type = RuleAnalysisType(q)
               /\ i.time_period = RuleTimePeriod(q)
               /\ i.categories = RuleCategories(q)
               /\ i.needs_visualization = RuleNeedsVisualization(q)
               /\ i.priority = RulePriority(q)
               /\ i.priority \in {3, 5}
               /\ i.analysis_type \in AnalysisTypes
               /\ i.confidence = 70

\* an urgent trend query answered while the gateway call raised
C5_Witness ==
    /\ pc = "returned"
    /\ query = Some("  URGENT: plot the trend of my gas bill today\n")
    /\ gateway.kind = "raise"
    /\ query_intent # None
    /\ Get(query_intent).priority = 5
    /\ Get(query_intent).analysis_type = "spending_trends"
    /\ Get(query_intent).time_period = "today"
    /\ Get(query_intent).categories = <<"transportation", "utilities">>

CoffeeQuery == "Show me my coffee spending this month"

CoffeeAnswered == pc = "returned" /\ query = Some(CoffeeQuery) /\ GatewayUnavailable

\* C6 as stated: with the gateway unavailable the coffee query yields categories
\* including "food", time_period "this_month" and needs_visualization false.
C6_Original ==
    CoffeeAnswered =>
        /\ query_intent # None
        /\ \E n \in 1..Len(Get(query_intent).categories) :
               Get(query_intent).categories[n] = "food"
        /\ Get(query_intent).time_period = "this_month"
        /\ Get(query_intent).needs_visualization = FALSE

\* C6 amended: with the gateway unavailable the coffee query yields categories
\* including "food", time_period "this_month" and needs_visualization true,
\* "show" being one of the visualization keywords.
C6_Amended ==
    CoffeeAnswered =>
        /\ query_intent # None
        /\ \E n \in 1..Len(Get(query_intent).categories) :
               Get(query_intent).categories[n] = "food"
        /\ Get(query_intent).time_period = "this_month"
        /\ Get(query_intent).needs_visualization = TRUE

C6_Witness ==
    /\ CoffeeAnswered
    /\ gateway.kind = "null"
    /\ query_intent # None
    /\ Get(query_intent).categories = <<"food">>

\* C7: every intent understand_query returns, whatever the AI Gateway answered,
\* has analysis_type among the four analysis types, a priority in 1..5 and a
\* confidence between 0 and 1.
C7_IntentInRange ==
    (pc = "returned" /\ query_intent # None) =>
        /\ Get(query_intent).analysis_type \in AnalysisTypes
        /\ Get(query_intent).priority \in 1..5
        /\ Get(query_intent).confidence \in 0..100

-----------------------------------------------------------------------------
(* AI Gateway, text and SQL: vertex_ai_client.py *)

\* generate_text: the stripped text of the response; None when the call raises
\* or the response is empty
generate_text(answer) ==
    IF answer.kind = "text" /\ answer.text # "" THEN Some(Strip(answer.text)) ELSE None

\* A TLA+ string cannot hold a backquote: "~" stands for it in the markdown fence
Fence == "~~~"
FenceSql == Fence \o "sql"

\* VertexAIClient.generate_sql_query: the response with its markdown fence removed
vertex_generate_sql_query(answer) ==
    LET response == generate_text(answer)
    IN  IF response # None /\ Get(response) # ""
        THEN LET s0 == Strip(Get(response))
                 s1 == IF StartsWith(s0, FenceSql) THEN SubSeq(s0, Len(FenceSql) + 1, Len(s0))
                       ELSE s0
                 s2 == IF EndsWith(s1, Fence) THEN SubSeq(s1, 1, Len(s1) - Len(Fence))
                       ELSE s1
             IN  Some(Strip(s2))
        ELSE None

-----------------------------------------------------------------------------
(* Data Analyst: agents/data_analyst.py *)

dangerous_keywords == <<"DROP", "DELETE", "UPDATE", "INSERT", "ALTER">>

\* a variant: the keywords are looked for in the text as written, not in its upper case
validate_sql_query_case_sensitive(sql) ==
    LET s == Strip(sql)
    IN  IF ~StartsWith(Upper(s), "SELECT") THEN None
        ELSE IF ContainsAny(s, dangerous_keywords) THEN None
        ELSE Some(s)

\* _validate_sql_query (its username argument only decides a log warning)
_validate_sql_query(sql) ==
    LET s == Strip(sql)
    IN  IF ~StartsWith(Upper(s), "SELECT") THEN None
        ELSE IF ContainsAny(Upper(s), dangerous_keywords) THEN None
        ELSE Some(s)

\* DataAnalystAgent.generate_sql_query.  The context built from the intent and
\* the preferences goes into the prompt only; the intents of this model carry a
\* list of category names, for which building it does not raise.
generate_sql_query(answer) ==
    LET sql == vertex_generate_sql_query(answer)
    IN  IF sql # None /\ Get(sql) # "" THEN _validate_sql_query(Get(sql)) ELSE None

\* execute_query's choice of database
database_for(sql) == IF Contains(Lower(sql), "transactions") THEN "ledger" ELSE "accounts"

-----------------------------------------------------------------------------
(* Inputs of generate_sql_query: what the model may answer *)

SqlLead == {"", "\n  "}
SqlHead ==
    {"SELECT", "select", "SeLeCt", "", "EXPLAIN SELECT",
     "WITH t AS (SELECT 1) SELECT", "DROP TABLE users; SELECT"}
SqlBody ==
    {" * FROM transactions WHERE amount > 50",
     " id, updated_at FROM user_preferences",
     " * FROM alert_configurations",
     " * FROM users WHERE lastname = 'Walter'",
     " 1; TRUNCATE TABLE transactions",
     " 1; CREATE TABLE t (a INT)",
     " 1; GRANT ALL ON users TO PUBLIC",
     " 1; drop table users",
     " * FROM users; Delete FROM users",
     " 1; SELECT 2",
     ""}
SqlTail == {"", " ", ";\n"}

SqlStatements == {l \o h \o b \o t : l \in SqlLead, h \in SqlHead, b \in SqlBody, t \in SqlTail}

\* the statement bare, in a fence marked sql, or in a plain fence
SqlResponses ==
    SqlStatements \cup {FenceSql \o "\n" \o s \o "\n" \o Fence : s \in SqlStatements}
                  \cup {Fence \o "\n" \o s \o "\n" \o Fence : s \in SqlStatements}

SqlAnswers ==
    {[kind |-> "raise"], [kind |-> "null"]} \cup {[kind |-> "text", text |-> r] : r \in SqlResponses}

-----------------------------------------------------------------------------
(* generate_sql_query on its own *)

InitSql ==
    /\ pc = "generate_sql_query"
    /\ query = Some(CoffeeQuery)
    /\ gateway = [kind |-> "null"]
    /\ query_intent = understand_query(query, gateway)
    /\ QueryIdle
    /\ PrefIdle
    /\ ExtraIdle

GenerateSqlCall ==
    /\ pc = "generate_sql_query"
    /\ \E answer \in SqlAnswers :
          /\ sql_text' = vertex_generate_sql_query(answer)
          /\ sql_query' = generate_sql_query(answer)
    /\ pc' = "returned"
    /\ UNCHANGED <<query, gateway, query_intent, user_preferences, data, insights,
                   visualizations, log_result, stages, result, served,
                   user_interactions>>
    /\ UNCHANGED prefVars
    /\ UNCHANGED extraVars

NextSql == GenerateSqlCall

SpecSql == InitSql /\ [][NextSql]_vars

-----------------------------------------------------------------------------
(* Claims about SQL validation, under SpecSql *)

BeginsWithSelect(s) == Len(s) >= 6 /\ Lower(SubSeq(s, 1, 6)) = "select"

MentionsDangerous(s) ==
    \E w \in {"drop", "delete", "update", "insert", "alter"} : Contains(Lower(s), w)

\* C8: generate_sql_query returns null for a text of the AI Gateway that, once
\* trimmed, does not begin with SELECT in any letter case, and for a text that
\* contains DROP, DELETE, UPDATE, INSERT or ALTER in any letter case; any other
\* text is returned with its surrounding whitespace removed and nothing else changed.
C8_Validation ==
    (pc = "returned" /\ sql_text # None) =>
        LET t == Get(sql_text)
        IN  IF BeginsWithSelect(Strip(t)) /\ ~MentionsDangerous(t)
            THEN sql_query = Some(Strip(t))
            ELSE sql_query = None

\* a SELECT rejected for the identifier updated_at
C8_Witness ==
    /\ pc = "returned"
    /\ sql_text = Some("select id, updated_at FROM user_preferences")
    /\ sql_query = None

-----------------------------------------------------------------------------
(* Insight Generator: agents/insight_generator.py *)

\* transaction.get("amount", 0)
Amount(row) == IF "amount" \in DOMAIN row THEN row.amount ELSE 0

RECURSIVE SumAmounts(_)
SumAmounts(rows) ==
    IF rows = <<>> THEN 0 ELSE Amount(Head(rows)) + SumAmounts(Tail(rows))

\* analysis: the answer of vertex_ai_client.analyze_data, None when falsy
analyze_spending_trends(transactions, analysis) ==
    IF transactions = <<>> THEN None
    ELSE IF analysis = None THEN None
    ELSE Some([type |-> "spending_trends",
               title |-> "Spending Trend Analysis",
               priority |-> 2,
               visualization_config |-> [chart_type |-> "line"]])

analyze_spending_categories(transactions) ==
    IF transactions = <<>> THEN None
    ELSE Some([type |-> "category_analysis",
               title |-> "Spending Category Breakdown",
               priority |-> 2,
               visualization_config |-> [chart_type |-> "pie"]])

\* a variant: the 5% threshold counted as an improvement
is_improvement_from_threshold(transactions) ==
    LET mid_point == Len(transactions) \div 2
        recent_total == SumAmounts(SubSeq(transactions, 1, mid_point))
        older_total == SumAmounts(SubSeq(transactions, mid_point + 1, Len(transactions)))
        rn == mid_point
        on == Len(transactions) - mid_point
    IN  /\ older_total > 0
        /\ (older_total * rn - recent_total * on) * 100 >= 5 * older_total * rn

\* improvement_pct > 5, with the two averages kept as fractions
is_improvement(transactions) ==
    LET mid_point == Len(transactions) \div 2
        recent_transactions == SubSeq(transactions, 1, mid_point)
        older_transactions == SubSeq(transactions, mid_point + 1, Len(transactions))
        recent_total == SumAmounts(recent_transactions)
        older_total == SumAmounts(older_transactions)
        rn == Len(recent_transactions)
        on == Len(older_transactions)
    IN  /\ older_total > 0
        /\ (older_total * rn - recent_total * on) * 100 > 5 * older_total * rn

analyze_improvements(transactions) ==
    IF Len(transactions) < 10 THEN None
    ELSE Some([type |-> "improvement_analysis",
               title |-> "Spending Improvement Analysis",
               priority |-> IF is_improvement(transactions) THEN 3 ELSE 2,
               visualization_config |-> [chart_type |-> "bar"]])

\* "if x: insights.append(x)"
Collect(o) == IF o = None THEN <<>> ELSE <<Get(o)>>

_general_analysis(rows, analysis) ==
    Collect(analyze_spending_trends(rows, analysis))
        \o Collect(analyze_spending_categories(rows))
        \o Collect(analyze_improvements(rows))

generate_insights(rows, intent, analysis) ==
    CASE intent.analysis_type = "spending_trends" ->
            Collect(analyze_spending_trends(rows, analysis))
      [] intent.analysis_type = "category_analysis" ->
            Collect(analyze_spending_categories(rows))
      [] intent.analysis_type = "improvement" ->
            Collect(analyze_improvements(rows))
      [] OTHER -> _general_analysis(rows, analysis)

-----------------------------------------------------------------------------
(* Data Visualization: agents/data_visualization.py *)

\* config.get(key, default) on the configuration object of the AI Gateway
ConfigGet(config, key, default) ==
    IF key \in DOMAIN config THEN config[key] ELSE default

\* every builder returns a configuration only when the AI Gateway supplied a
\* truthy one; the trend builder also needs a timestamp column
_create_trend_visualization(rows, config) ==
    IF rows = <<>> \/ "timestamp" \notin DOMAIN rows[1] THEN None
    ELSE IF config = None THEN None
    ELSE Some([type |-> "trend_analysis",
               chart_type |-> ConfigGet(Get(config), "chart_type", "line"),
               title |-> ConfigGet(Get(config), "title", "Spending Trends")])

_create_category_visualization(rows, config) ==
    IF config = None THEN None
    ELSE Some([type |-> "category_analysis",
               chart_type |-> ConfigGet(Get(config), "chart_type", "pie"),
               title |-> ConfigGet(Get(config), "title", "Spending by Category")])

_create_improvement_visualization(rows, config) ==
    IF config = None THEN None
    ELSE Some([type |-> "improvement_analysis",
               chart_type |-> ConfigGet(Get(config), "chart_type", "bar"),
               title |-> ConfigGet(Get(config), "title", "Spending Improvement")])

_create_general_visualization(rows, config) ==
    IF config = None THEN None
    ELSE Some([type |-> "general_analysis",
               chart_type |-> ConfigGet(Get(config), "chart_type", "bar"),
               title |-> ConfigGet(Get(config), "title", "Spending Analysis")])

_create_visualizations_for_intent(rows, intent, config) ==
    CASE intent.analysis_type = "spending_trends" ->
            Collect(_create_trend_visualization(rows, config))
      [] intent.analysis_type = "category_analysis" ->
            Collect(_create_category_visualization(rows, config))
      [] intent.analysis_type = "improvement" ->
            Collect(_create_improvement_visualization(rows, config))
      [] OTHER -> Collect(_create_general_visualization(rows, config))

_enhance_visualization_config(base_config, insight) ==
    [chart_type |-> base_config.chart_type,
     insight_type |-> insight.type]

RECURSIVE EnhanceAll(_)
EnhanceAll(found) ==
    IF found = <<>> THEN <<>>
    ELSE <<_enhance_visualization_config(Head(found).visualization_config, Head(found))>>
            \o EnhanceAll(Tail(found))

\* a variant: the configurations of the insights first
create_visualizations_insights_first(rows, found, intent, config) ==
    EnhanceAll(found)
    \o (IF intent.needs_visualization
           THEN _create_visualizations_for_intent(rows, intent, config)
           ELSE <<>>)

create_visualizations(rows, found, intent, config) ==
    (IF intent.needs_visualization
        THEN _create_visualizations_for_intent(rows, intent, config)
        ELSE <<>>)
    \o EnhanceAll(found)

-----------------------------------------------------------------------------
(* User Preference agent and database reads used by the pipeline *)

Username == "testuser"

RECURSIVE NewestFirst(_)
\* database.get_user_preferences: ORDER BY created_at DESC; a row keeps the
\* created_at of its insertion, so the order is that of the serial ids
NewestFirst(rows) ==
    IF rows = {} THEN <<>>
    ELSE LET newest == CHOOSE r \in rows : \A o \in rows : o.id <= r.id
         IN  <<newest>> \o NewestFirst(rows \ {newest})

\* UserPreferenceAgent.get_user_preferences: [] when the database raises
get_user_preferences(username, read_ok) ==
    IF read_ok
        THEN NewestFirst({r \in preferences_table : r.username = username})
        ELSE <<>>

\* log_interaction without its try/except: a failed write escapes
log_interaction_uncaught(write_ok) == [raised |-> ~write_ok, logged |-> write_ok]

\* UserPreferenceAgent.log_interaction: a failed write is logged and swallowed
log_interaction(write_ok) == [raised |-> FALSE, logged |-> write_ok]

\* DataAnalystAgent.execute_query: [] when the database raises, and when the
\* statement is no text (sql_query.lower() raises inside the try)
execute_query(sql, outcome) ==
    IF sql = None \/ outcome.kind = "error" THEN <<>> ELSE outcome.rows

-----------------------------------------------------------------------------
(* Inputs of the query pipeline *)

MaxRequests == 2

PipelineQueries ==
    { Some("Show me my coffee spending this month"),
      Some("How much did I spend on food last week?"),
      Some("  URGENT: plot the trend of my gas bill today\n"),
      None }

PipelineGatewayAnswers ==
    { [kind |-> "null"],
      [kind |-> "object",
       object |-> [analysis_type |-> "improvement", needs_visualization |-> TRUE]] }

PipelineSqlAnswers ==
    { [kind |-> "null"],
      [kind |-> "text", text |-> "SELECT amount, timestamp FROM transactions"],
      [kind |-> "text", text |-> "select id, updated_at FROM user_preferences"],
      [kind |-> "text", text |-> "SELECT 1; TRUNCATE TABLE transactions"] }

Day == "2024-01-15"

CheapRows == [i \in 1..5 |-> [amount |-> 40, timestamp |-> Day]]
DearRows == [i \in 1..5 |-> [amount |-> 100, timestamp |-> Day]]

ResultSets ==
    { <<>>,
      <<[total |-> 175]>>,
      <<[amount |-> 50, timestamp |-> Day], [amount |-> 600, timestamp |-> Day]>>,
      CheapRows \o DearRows,
      DearRows \o CheapRows }

ExecuteOutcomes == {[kind |-> "error"]} \cup {[kind |-> "rows", rows |-> r] : r \in ResultSets}

\* analyze_data of the AI Gateway: nothing, or an analysis
AnalysisAnswers == {None, Some([summary |-> "steady"])}

\* the visualization configuration of the AI Gateway: nothing, or an object
ConfigAnswers == {None, Some([chart_type |-> "area"]), Some([title |-> "My spending"])}

StoredPreference ==
    [id |-> 1, username |-> Username, preference_type |-> "display",
     preference_key |-> "chart_type", preference_value |-> "line"]
-----------------------------------------------------------------------------
(* Orchestrator: process_user_query, one action per awaited stage *)

Failure(message) == [success |-> FALSE, error |-> message]

NotUnderstood == Failure("Could not understand your query. Please try rephrasing it.")
NotGenerated == Failure("Could not generate appropriate query for your request.")
NoData == Failure("No data found for your query.")

\* an except branch that hands back what was computed so far
ExceptionResponsePartial ==
    [success |-> FALSE,
     error |-> "An error occurred while processing your query. Please try again.",
     data |-> data, insights |-> insights]

\* the response of the except branch
ExceptionResponse ==
    Failure("An error occurred while processing your query. Please try again.")

SuccessResponse(intent, rows, found, charts) ==
    [success |-> TRUE, query_intent |-> intent, data |-> rows,
     insights |-> found, visualizations |-> charts]

\* a pipeline that goes on without a statement, or without rows
SqlMissingIgnored(sql) == FALSE
DataMissingIgnored(rows) == FALSE

\* "if not query_intent", "if not sql_query", "if not data"
IntentMissing(intent) == intent = None
SqlMissing(sql) == sql = None \/ Get(sql) = ""
DataMissing(rows) == rows = <<>>

Init ==
    /\ pc = "idle"
    /\ query = None
    /\ gateway = NoAnswer
    /\ query_intent = None
    /\ QueryIdle
    /\ preferences_table \in {{}, {StoredPreference}}
    /\ next_pref_id = Cardinality(preferences_table) + 1
    /\ saves = <<>>
    /\ ExtraIdle

Receive ==
    /\ pc \in {"idle", "done"}
    /\ served < MaxRequests
    /\ query' \in PipelineQueries
    /\ served' = served + 1
    /\ pc' = "understand"
    /\ gateway' = NoAnswer
    /\ query_intent' = None
    /\ user_preferences' = <<>>
    /\ sql_text' = None
    /\ sql_query' = None
    /\ data' = <<>>
    /\ insights' = <<>>
    /\ visualizations' = <<>>
    /\ log_result' = "not called"
    /\ stages' = <<>>
    /\ result' = NoResponse
    /\ UNCHANGED user_interactions
    /\ UNCHANGED prefVars
    /\ UNCHANGED extraVars

StepUnderstand ==
    /\ pc = "understand"
    /\ \E g \in PipelineGatewayAnswers :
          /\ gateway' = IF query = None THEN NoAnswer ELSE g
          /\ query_intent' = understand_query(query, g)
    /\ stages' = Append(stages, "understand")
    /\ IF IntentMissing(query_intent')
          THEN result' = NotUnderstood /\ pc' = "done"
          ELSE result' = result /\ pc' = "preferences"
    /\ UNCHANGED <<query, user_preferences, sql_text, sql_query, data, insights,
                   visualizations, log_result, served, user_interactions>>
    /\ UNCHANGED prefVars
    /\ UNCHANGED extraVars

StepPreferences ==
    /\ pc = "preferences"
    /\ \E read_ok \in BOOLEAN :
          user_preferences' = get_user_preferences(Username, read_ok)
    /\ stages' = Append(stages, "preferences")
    /\ pc' = "generate_sql"
    /\ UNCHANGED <<query, gateway, query_intent, sql_text, sql_query, data, insights,
                   visualizations, log_result, result, served, user_interactions>>
    /\ UNCHANGED prefVars
    /\ UNCHANGED extraVars

StepGenerateSql ==
    /\ pc = "generate_sql"
    /\ \E answer \in PipelineSqlAnswers :
          /\ sql_text' = vertex_generate_sql_query(answer)
          /\ sql_query' = generate_sql_query(answer)
    /\ stages' = Append(stages, "generate_sql")
    /\ IF SqlMissing(sql_query')
          THEN result' = NotGenerated /\ pc' = "done"
          ELSE result' = result /\ pc' = "execute"
    /\ UNCHANGED <<query, gateway, query_intent, user_preferences, data, insights,
                   visualizations, log_result, served, user_interactions>>
    /\ UNCHANGED prefVars
    /\ UNCHANGED extraVars

StepExecute ==
    /\ pc = "execute"
    /\ \E outcome \in ExecuteOutcomes : data' = execute_query(sql_query, outcome)
    /\ stages' = Append(stages, "execute")
    /\ IF DataMissing(data')
          THEN result' = NoData /\ pc' = "done"
          ELSE result' = result /\ pc' = "insights"
    /\ UNCHANGED <<query, gateway, query_intent, user_preferences, sql_text, sql_query,
                   insights, visualizations, log_result, served, user_interactions>>
    /\ UNCHANGED prefVars
    /\ UNCHANGED extraVars

\* generate_insights, then "visualizations = []" and the test of needs_visualization
StepInsights ==
    /\ pc = "insights"
    /\ \E analysis \in AnalysisAnswers :
          insights' = generate_insights(data, Get(query_intent), analysis)
    /\ stages' = Append(stages, "insights")
    /\ visualizations' = <<>>
    /\ pc' = IF Get(query_intent).needs_visualization THEN "visualize" ELSE "log"
    /\ UNCHANGED <<query, gateway, query_intent, user_preferences, sql_text, sql_query,
                   data, log_result, result, served, user_interactions>>
    /\ UNCHANGED prefVars
    /\ UNCHANGED extraVars

StepVisualize ==
    /\ pc = "visualize"
    /\ \E config \in ConfigAnswers :
          visualizations' = create_visualizations(data, insights, Get(query_intent), config)
    /\ stages' = Append(stages, "visualize")
    /\ pc' = "log"
    /\ UNCHANGED <<query, gateway, query_intent, user_preferences, sql_text, sql_query,
                   data, insights, log_result, result, served, user_interactions>>
    /\ UNCHANGED prefVars
    /\ UNCHANGED extraVars

\* log_interaction, then the success response
StepLog ==
    /\ pc = "log"
    /\ \E write_ok \in BOOLEAN :
          LET outcome == log_interaction(write_ok)
          IN  /\ log_result' = IF outcome.logged THEN "logged" ELSE "failed"
              /\ user_interactions' =
                    IF outcome.logged
                        THEN Append(user_interactions,
                                    [username |-> Username,
                                     interaction_type |-> "query_processed",
                                     interaction_data |->
                                        [query |-> Get(query),
                                         intent |-> Get(query_intent),
                                         insights_generated |-> Len(insights)]])
                        ELSE user_interactions
              /\ result' = IF outcome.raised
                              THEN ExceptionResponse
                              ELSE SuccessResponse(Get(query_intent), data, insights,
                                                   visualizations)
    /\ stages' = Append(stages, "log")
    /\ pc' = "done"
    /\ UNCHANGED <<query, gateway, query_intent, user_preferences, sql_text, sql_query,
                   data, insights, visualizations, served>>
    /\ UNCHANGED prefVars
    /\ UNCHANGED extraVars

\* an exception that escapes a stage is caught by the except branch of
\* process_user_query, which answers with the generic failure
UnhandledException ==
    /\ pc \in {"understand", "preferences", "generate_sql", "execute", "insights",
               "visualize", "log"}
    /\ result' = ExceptionResponse
    /\ pc' = "done"
    /\ UNCHANGED <<query, gateway, query_intent, user_preferences, sql_text, sql_query,
                   data, insights, visualizations, log_result, stages, served,
                   user_interactions>>
    /\ UNCHANGED prefVars
    /\ UNCHANGED extraVars

Next ==
    \/ Receive
    \/ StepUnderstand
    \/ StepPreferences
    \/ StepGenerateSql
    \/ StepExecute
    \/ StepInsights
    \/ StepVisualize
    \/ StepLog
    \/ UnhandledException

Spec == Init /\ [][Next]_vars

-----------------------------------------------------------------------------
(* Claims about the query pipeline, under Spec *)

InStages(name) == \E i \in 1..Len(stages) : stages[i] = name

StageOrder ==
    <<"understand", "preferences", "generate_sql", "execute", "insights", "visualize", "log">>

StageOrderWithoutVisualize ==
    <<"understand", "preferences", "generate_sql", "execute", "insights", "log">>

IsPrefix(s, t) == Len(s) <= Len(t) /\ s = SubSeq(t, 1, Len(s))

\* C1: once SQL generation has returned null, whether the AI Gateway gave
\* nothing or validation rejected its text, the request is over: the response
\* is exactly success = false with the error "Could not generate appropriate
\* query for your request.", and query execution, insight generation,
\* visualization and interaction logging have not run and never run.
C1_NoSqlStops ==
    (InStages("generate_sql") /\ sql_query = None) =>
        /\ pc = "done"
        /\ result = [success |-> FALSE,
                     error |-> "Could not generate appropriate query for your request."]
        /\ stages = <<"understand", "preferences", "generate_sql">>
        /\ data = <<>>
        /\ insights = <<>>
        /\ visualizations = <<>>
        /\ log_result = "not called"

\* a text of the AI Gateway rejected by validation ended the request
C1_Witness ==
    /\ pc = "done"
    /\ sql_text = Some("select id, updated_at FROM user_preferences")
    /\ sql_query = None
    /\ result = NotGenerated

\* C2: the stages of a request run in the order understand, preferences,
\* generate SQL, execute, insights, visualize (only when the intent asks for
\* it), log; a null intent ends the request after the first stage with
\* "Could not understand your query. Please try rephrasing it.", and an
\* empty result set ends it after execution with "No data found for your
\* query.", before insights, visualization and logging.
C2_StageOrder ==
    /\ \/ IsPrefix(stages, StageOrder)
       \/ IsPrefix(stages, StageOrderWithoutVisualize)
    /\ InStages("log") =>
          (InStages("visualize") <=> Get(query_intent).needs_visualization)
    /\ (InStages("understand") /\ query_intent = None) =>
          /\ pc = "done"
          /\ result = [success |-> FALSE,
                       error |-> "Could not understand your query. Please try rephrasing it."]
          /\ stages = <<"understand">>
          /\ sql_text = None
          /\ sql_query = None
    /\ (InStages("execute") /\ data = <<>>) =>
          /\ pc = "done"
          /\ result = [success |-> FALSE, error |-> "No data found for your query."]
          /\ stages = <<"understand", "preferences", "generate_sql", "execute">>
          /\ insights = <<>>
          /\ visualizations = <<>>
          /\ log_result = "not called"

\* an accepted statement returned no rows and the request ended there
C2_Witness ==
    /\ pc = "done"
    /\ sql_query = Some("SELECT amount, timestamp FROM transactions")
    /\ stages = <<"understand", "preferences", "generate_sql", "execute">>
    /\ data = <<>>
    /\ result = NoData

ResultFields == {"query_intent", "data", "insights", "visualizations"}

\* C3: a response with success = false carries an error message and nothing
\* else, even when the error came after data and insights were computed; a
\* response carrying query_intent, data, insights or visualizations has
\* success = true.
C3_ErrorOnlyOnFailure ==
    result # NoResponse =>
        /\ result.success = FALSE => DOMAIN result = {"success", "error"}
        /\ (DOMAIN result \cap ResultFields # {}) => result.success = TRUE

\* the generic failure, answered after data and insights were computed
C3_Witness ==
    /\ pc = "done"
    /\ result = Failure("An error occurred while processing your query. Please try again.")
    /\ InStages("insights")
    /\ data # <<>>
    /\ insights # <<>>

\* C4: a failed write of the interaction log does not fail the request: the
\* response is success = true with the intent, data, insights and
\* visualizations the request computed, as when the write succeeds.
C4_LogBestEffort ==
    (pc = "done" /\ log_result = "failed") =>
        /\ result = [success |-> TRUE,
                     query_intent |-> Get(query_intent),
                     data |-> data,
                     insights |-> insights,
                     visualizations |-> visualizations]
        /\ data # <<>>

\* the log write failed on a request that had insights and charts to return
C4_Witness ==
    /\ pc = "done"
    /\ log_result = "failed"
    /\ result.success = TRUE
    /\ result.insights # <<>>
    /\ result.visualizations # <<>>

WriteVerbs ==
    {"drop", "delete", "update", "insert", "alter", "truncate", "create", "grant"}

\* every ";" is the last thing in the text
SingleStatement(s) ==
    \A i \in 1..Len(s) : CharAt(s, i) = ";" => Strip(SubSeq(s, i + 1, Len(s))) = ""

\* C9: every SQL text passed to execute_query is a single read-only
\* statement: it begins with SELECT, holds no second statement after a ";",
\* and holds no verb that writes or changes the schema.
C9_SingleReadOnly ==
    (InStages("execute") /\ sql_query # None) =>
        /\ BeginsWithSelect(Get(sql_query))
        /\ SingleStatement(Get(sql_query))
        /\ \A verb \in WriteVerbs : ~Contains(Lower(Get(sql_query)), verb)

-----------------------------------------------------------------------------
(* Preference store: database.save_user_preference on table user_preferences *)

MaxSaves == 3

Usernames == {"testuser", "otheruser"}
PreferenceTypes == {"display"}
PreferenceKeys == {"chart_type", "currency"}
PreferenceValues == {"line", "bar"}

\* an upsert that never finds the row it is about to write
ExistingNever(table, username, type, key) == {}

\* check_query: the rows of (username, preference_type, preference_key)
Existing(table, username, type, key) ==
    {r \in table : /\ r.username = username
                   /\ r.preference_type = type
                   /\ r.preference_key = key}

\* update_query: SET preference_value = :value WHERE id = :id
UpdateRow(table, id, value) ==
    {IF r.id = id THEN [r EXCEPT !.preference_value = value] ELSE r : r \in table}

\* insert_query: a new row under the next serial id
InsertRow(table, id, username, type, key, value) ==
    table \cup {[id |-> id, username |-> username, preference_type |-> type,
                 preference_key |-> key, preference_value |-> value]}

\* what became of one call: the id it returned, or None when it raised
Call(username, type, key, value, returned) ==
    [username |-> username, preference_type |-> type, preference_key |-> key,
     preference_value |-> value, returned |-> returned]

InitPrefs ==
    /\ pc = "store"
    /\ query = None
    /\ gateway = NoAnswer
    /\ query_intent = None
    /\ QueryIdle
    /\ PrefIdle
    /\ ExtraIdle

\* One call of save_user_preference. The handlers await nothing between the
\* check and the write, so a call is one step. execute_query raises what the
\* database raises: before the statement took effect, or, for the UPDATE that
\* returns no rows to read, after it did.
SaveUserPreference ==
    /\ pc = "store"
    /\ Len(saves) < MaxSaves
    /\ \E username \in Usernames, type \in PreferenceTypes, key \in PreferenceKeys,
          value \in PreferenceValues, outcome \in {"ok", "raised", "raised after write"} :
          LET existing == Existing(preferences_table, username, type, key)
          IN  IF existing # {}
                 THEN \E first \in existing :
                         /\ preferences_table' =
                               IF outcome = "raised" THEN preferences_table
                               ELSE UpdateRow(preferences_table, first.id, value)
                         /\ next_pref_id' = next_pref_id
                         /\ saves' = Append(saves,
                               Call(username, type, key, value,
                                    IF outcome = "ok" THEN Some(first.id) ELSE None))
                 ELSE /\ outcome # "raised after write"
                      /\ preferences_table' =
                            IF outcome = "raised" THEN preferences_table
                            ELSE InsertRow(preferences_table, next_pref_id,
                                           username, type, key, value)
                      /\ next_pref_id' =
                            IF outcome = "raised" THEN next_pref_id ELSE next_pref_id + 1
                      /\ saves' = Append(saves,
                            Call(username, type, key, value,
                                 IF outcome = "ok" THEN Some(next_pref_id) ELSE None))
    /\ UNCHANGED pc
    /\ UNCHANGED queryVars
    /\ UNCHANGED extraVars

NextPrefs == SaveUserPreference

SpecPrefs == InitPrefs /\ [][NextPrefs]_vars

-----------------------------------------------------------------------------
(* Claims about the preference store, under SpecPrefs *)

SameKey(r, c) ==
    /\ r.username = c.username
    /\ r.preference_type = c.preference_type
    /\ r.preference_key = c.preference_key

SameArguments(c, d) ==
    /\ SameKey(c, d)
    /\ c.preference_value = d.preference_value

\* the step is the second of two successive calls that returned, with the
\* same username, type, key and value
SecondApplication ==
    /\ Len(saves) >= 1
    /\ saves' # saves
    /\ LET first == saves[Len(saves)]
           second == saves'[Len(saves')]
       IN  /\ SameArguments(first, second)
           /\ first.returned # None
           /\ second.returned # None

\* C10: when save_user_preference is applied twice in sequence with the same
\* (username, type, key, value), from any state of the store, the second
\* application returns the id the first returned, exactly one record has that
\* (username, type, key) and it holds that value, and no other record changes.
C10_UpsertIdempotent ==
    [][SecondApplication =>
          LET first == saves[Len(saves)]
              second == saves'[Len(saves')]
              kept == {r \in preferences_table' : SameKey(r, second)}
          IN  /\ second.returned = first.returned
              /\ Cardinality(kept) = 1
              /\ \A r \in kept : /\ r.preference_value = second.preference_value
                                 /\ r.id = Get(second.returned)
              /\ {r \in preferences_table' : ~SameKey(r, second)}
                    = {r \in preferences_table : ~SameKey(r, second)}
              /\ preferences_table' = preferences_table]_vars

\* the same value saved twice over a record that held another value, next to
\* a record of another key
C10_Witness ==
    /\ Len(saves) = 3
    /\ saves[1].preference_value # saves[2].preference_value
    /\ SameKey(saves[1], saves[2])
    /\ SameArguments(saves[2], saves[3])
    /\ saves[1].returned # None
    /\ saves[2].returned # None
    /\ saves[3].returned = saves[2].returned
    /\ \E r \in preferences_table : SameKey(r, saves[3])

-----------------------------------------------------------------------------
(* Preference store under concurrent requests.  save_user_preference runs   *)
(* its check and its write as two statements, each on a connection of its   *)
(* own (execute_query), with no transaction or lock around the pair and no  *)
(* UNIQUE constraint on the table; requests served by different service     *)
(* instances meet only in the database.                                     *)

MaxUpserts == 4

Instances == {1, 2}

NoUpsert == [pc |-> "idle"]

InitStore ==
    /\ pc = "store"
    /\ query = None
    /\ gateway = NoAnswer
    /\ query_intent = None
    /\ QueryIdle
    /\ PrefIdle
    /\ upserts = [i \in Instances |-> NoUpsert]
    /\ alert_configurations = {}
    /\ ai_insights = <<>>
    /\ call = <<>>

\* check_query of one request; "alone" tells whether no other request is
\* between its check and its write
CheckExisting(i) ==
    /\ upserts[i].pc = "idle"
    /\ served < MaxUpserts
    /\ served' = served + 1
    /\ \E username \in Usernames, type \in PreferenceTypes, key \in PreferenceKeys,
          value \in PreferenceValues :
          upserts' =
             [j \in Instances |->
                IF j = i
                   THEN [pc |-> "checked",
                         username |-> username, preference_type |-> type,
                         preference_key |-> key, preference_value |-> value,
                         existing |-> {r.id : r \in Existing(preferences_table,
                                                             username, type, key)},
                         alone |-> \A k \in Instances \ {i} : upserts[k].pc = "idle"]
                   ELSE IF upserts[j].pc = "checked"
                           THEN [upserts[j] EXCEPT !.alone = FALSE]
                           ELSE upserts[j]]
    /\ UNCHANGED <<pc, query, gateway, query_intent, user_preferences, sql_text,
                   sql_query, data, insights, visualizations, log_result, stages,
                   result, user_interactions>>
    /\ UNCHANGED prefVars
    /\ UNCHANGED <<alert_configurations, ai_insights, call>>

\* update_query on existing[0], or insert_query, then the return
WriteUpsert(i) ==
    /\ upserts[i].pc = "checked"
    /\ LET u == upserts[i]
       IN  IF u.existing # {}
              THEN \E first \in u.existing :
                      /\ preferences_table' =
                            UpdateRow(preferences_table, first, u.preference_value)
                      /\ next_pref_id' = next_pref_id
                      /\ saves' = Append(saves,
                            [username |-> u.username,
                             preference_type |-> u.preference_type,
                             preference_key |-> u.preference_key,
                             preference_value |-> u.preference_value,
                             returned |-> Some(first), alone |-> u.alone])
              ELSE /\ preferences_table' =
                         InsertRow(preferences_table, next_pref_id, u.username,
                                   u.preference_type, u.preference_key,
                                   u.preference_value)
                   /\ next_pref_id' = next_pref_id + 1
                   /\ saves' = Append(saves,
                         [username |-> u.username,
                          preference_type |-> u.preference_type,
                          preference_key |-> u.preference_key,
                          preference_value |-> u.preference_value,
                          returned |-> Some(next_pref_id), alone |-> u.alone])
    /\ upserts' = [upserts EXCEPT ![i] = NoUpsert]
    /\ UNCHANGED pc
    /\ UNCHANGED queryVars
    /\ UNCHANGED <<alert_configurations, ai_insights, call>>

NextStore == \E i \in Instances : CheckExisting(i) \/ WriteUpsert(i)

SpecStore == InitStore /\ [][NextStore]_vars

-----------------------------------------------------------------------------
(* Claims about the preference store under concurrent requests, SpecStore *)

\* C11: in every reachable state of the preference store, under any
\* interleaving of the checks and writes of concurrent upserts, there is at
\* most one record per (username, preference_type, preference_key).
C11_UniquePerKey ==
    \A r1 \in preferences_table : \A r2 \in preferences_table :
        SameKey(r1, r2) => r1 = r2

\* the step completes the second of two successive upserts with the same
\* arguments, each run with no other request in progress
SecondSequentialApplication ==
    /\ Len(saves) >= 1
    /\ Len(saves') = Len(saves) + 1
    /\ LET first == saves[Len(saves)]
           second == saves'[Len(saves')]
       IN  /\ SameArguments(first, second)
           /\ first.alone
           /\ second.alone

\* C10 on the stores that concurrent requests leave behind: two successive
\* upserts with the same arguments leave exactly one record of that key, with
\* that value, and the second returns the id of the first.
C10_OnAnyStore ==
    [][SecondSequentialApplication =>
          LET first == saves[Len(saves)]
              second == saves'[Len(saves')]
              kept == {r \in preferences_table' : SameKey(r, second)}
          IN  /\ second.returned = first.returned
              /\ Cardinality(kept) = 1
              /\ \A r \in kept : r.preference_value = second.preference_value]_vars

-----------------------------------------------------------------------------
(* User Preference agent: update_preferences *)

\* what one preference type maps to: a dict of keys and values, or a single
\* value that is no dict
PreferenceData ==
    { [dict |-> TRUE, items |-> <<>>],
      [dict |-> TRUE, items |-> <<[key |-> "chart_type", value |-> "line"]>>],
      [dict |-> TRUE, items |-> <<[key |-> "chart_type", value |-> "bar"],
                                  [key |-> "currency", value |-> "line"]>>],
      [dict |-> FALSE, value |-> "bar"] }

\* the preferences of a request, a dict of at most two preference types
PreferencesInputs ==
    {<<>>}
    \cup {<<[type |-> "display", data |-> d]>> : d \in PreferenceData}
    \cup {<<[type |-> "display", data |-> d], [type |-> "alerts", data |-> e]>> :
             d \in PreferenceData, e \in PreferenceData}

RECURSIVE ItemsOf(_, _)
\* the (type, key, value) of a dict's items, in the order of the dict
ItemsOf(type, items) ==
    IF items = <<>> THEN <<>>
    ELSE <<[preference_type |-> type, preference_key |-> Head(items).key,
            preference_value |-> Head(items).value]>> \o ItemsOf(type, Tail(items))

RECURSIVE UpsertsOf(_)
\* the save_user_preference calls the two loops of update_preferences issue
UpsertsOf(preferences) ==
    IF preferences = <<>> THEN <<>>
    ELSE LET p == Head(preferences)
         IN  (IF p.data.dict
                 THEN ItemsOf(p.type, p.data.items)
                 ELSE <<[preference_type |-> p.type, preference_key |-> "default",
                         preference_value |-> p.data.value]>>)
             \o UpsertsOf(Tail(preferences))

\* "return success_count > 0", and the False of the except branch
UpdateReturn(success_count, raised) == IF raised THEN FALSE ELSE success_count > 0

InitUpdate ==
    /\ pc = "update_preferences"
    /\ query = None
    /\ gateway = NoAnswer
    /\ query_intent = None
    /\ QueryIdle
    /\ preferences_table \in {{}, {StoredPreference}}
    /\ next_pref_id = Cardinality(preferences_table) + 1
    /\ saves = <<>>
    /\ upserts = <<>>
    /\ alert_configurations = {}
    /\ ai_insights = <<>>
    /\ \E preferences \in PreferencesInputs :
          call = [todo |-> UpsertsOf(preferences), success_count |-> 0,
                  persisted |-> 0, returned |-> None]

\* one turn of the loops: save_user_preference returns an id, or raises what
\* the database raised, which ends the call in the except branch
UpsertNext ==
    /\ pc = "update_preferences"
    /\ call.todo # <<>>
    /\ LET item == Head(call.todo)
           existing == Existing(preferences_table, Username, item.preference_type,
                                item.preference_key)
       IN  \E write_ok \in BOOLEAN :
              IF write_ok
                 THEN /\ IF existing # {}
                            THEN \E first \in existing :
                                    /\ preferences_table' =
                                          UpdateRow(preferences_table, first.id,
                                                    item.preference_value)
                                    /\ next_pref_id' = next_pref_id
                            ELSE /\ preferences_table' =
                                       InsertRow(preferences_table, next_pref_id,
                                                 Username, item.preference_type,
                                                 item.preference_key,
                                                 item.preference_value)
                                 /\ next_pref_id' = next_pref_id + 1
                      /\ call' = [call EXCEPT !.todo = Tail(call.todo),
                                              !.success_count = @ + 1,
                                              !.persisted = @ + 1]
                      /\ pc' = pc
                 ELSE /\ UNCHANGED <<preferences_table, next_pref_id>>
                      /\ call' = [call EXCEPT
                                    !.returned = Some(UpdateReturn(call.success_count, TRUE))]
                      /\ pc' = "returned"
    /\ UNCHANGED queryVars
    /\ UNCHANGED <<saves, upserts, alert_configurations, ai_insights>>

ReturnUpdate ==
    /\ pc = "update_preferences"
    /\ call.todo = <<>>
    /\ call' = [call EXCEPT !.returned = Some(UpdateReturn(call.success_count, FALSE))]
    /\ pc' = "returned"
    /\ UNCHANGED queryVars
    /\ UNCHANGED prefVars
    /\ UNCHANGED <<upserts, alert_configurations, ai_insights>>

NextUpdate == UpsertNext \/ ReturnUpdate

SpecUpdate == InitUpdate /\ [][NextUpdate]_vars

\* C12: update_preferences returns true exactly when at least one of the
\* upserts it issued was persisted, also when a later upsert of the same
\* call failed with a store error.
C12_TrueIffPersisted ==
    pc = "returned" => (Get(call.returned) <=> call.persisted > 0)

-----------------------------------------------------------------------------
(* Alert Notification agent: agents/alert_notification.py.  Time is counted *)
(* in hours, money in whole dollars.                                        *)

\* a timestamp as check_alerts receives it: an ISO string without offset, an
\* ISO string ending in "Z", or a datetime of the database (no time zone);
\* parsing gives a datetime that is aware of its time zone only for the "Z"
ParseTimestamp(timestamp) ==
    [at |-> timestamp.at, aware |-> timestamp.repr = "iso_z"]

\* now.replace(hour=0, ...), now - timedelta(days=7 / 30 / 1)
StartDate(period, now) ==
    CASE period = "daily" -> now - (now % 24)
      [] period = "weekly" -> now - 7 * 24
      [] period = "monthly" -> now - 30 * 24
      [] OTHER -> now - 24

\* "trans_date >= start_date" raises TypeError when trans_date is aware of its
\* time zone: start_date comes from datetime.now() and is not
ComparisonRaises(transactions) ==
    \E i \in 1..Len(transactions) : ParseTimestamp(transactions[i].timestamp).aware

RECURSIVE SumSince(_, _)
SumSince(transactions, start_date) ==
    IF transactions = <<>> THEN 0
    ELSE (IF ParseTimestamp(Head(transactions).timestamp).at >= start_date
             THEN Amount(Head(transactions)) ELSE 0)
         + SumSince(Tail(transactions), start_date)

\* a variant: an aware datetime is compared by its instant
calculate_spending_for_period_any_zone(transactions, period, now) ==
    SumSince(transactions, StartDate(period, now))

\* 0.0 from the except branch when the comparison raises
_calculate_spending_for_period(transactions, period, now) ==
    IF ComparisonRaises(transactions) THEN 0
    ELSE SumSince(transactions, StartDate(period, now))

alert_category_keywords ==
    [coffee |-> <<"coffee", "starbucks", "cafe">>,
     food |-> <<"restaurant", "dining", "food", "lunch", "dinner">>,
     entertainment |-> <<"movie", "game", "netflix", "spotify">>,
     shopping |-> <<"amazon", "store", "retail">>]

KeywordsOf(category) ==
    IF Lower(category) \in DOMAIN alert_category_keywords
        THEN alert_category_keywords[Lower(category)]
        ELSE <<Lower(category)>>

RECURSIVE SumCategorySince(_, _, _)
SumCategorySince(transactions, keywords, start_date) ==
    IF transactions = <<>> THEN 0
    ELSE (IF /\ ParseTimestamp(Head(transactions).timestamp).at >= start_date
             /\ ContainsAny(Lower(Head(transactions).description), keywords)
             THEN Amount(Head(transactions)) ELSE 0)
         + SumCategorySince(Tail(transactions), keywords, start_date)

_calculate_category_spending(transactions, category, period, now) ==
    IF ComparisonRaises(transactions) THEN 0
    ELSE SumCategorySince(transactions, KeywordsOf(category), StartDate(period, now))

\* [config for config in alert_configs if config["alert_type"] == type]
RECURSIVE ConfigsOfType(_, _)
ConfigsOfType(alert_configs, type) ==
    IF alert_configs = <<>> THEN <<>>
    ELSE (IF Head(alert_configs).alert_type = type THEN <<Head(alert_configs)>> ELSE <<>>)
         \o ConfigsOfType(Tail(alert_configs), type)

RECURSIVE ThresholdAlerts(_, _, _)
ThresholdAlerts(configs, transactions, now) ==
    IF configs = <<>> THEN <<>>
    ELSE LET config == Head(configs)
             spending == _calculate_spending_for_period(transactions,
                                                        config.threshold_period, now)
         IN  (IF spending > config.threshold_value
                 THEN <<[type |-> "spending_threshold",
                         description |-> "You've spent more than your threshold",
                         data |-> [threshold_value |-> config.threshold_value,
                                   actual_spending |-> spending,
                                   period |-> config.threshold_period,
                                   excess_amount |-> spending - config.threshold_value],
                         priority |-> 3,
                         alert_config_id |-> Some(config.id)]>>
                 ELSE <<>>)
             \o ThresholdAlerts(Tail(configs), transactions, now)

\* raises: an exception inside the try of the check; the check then returns []
_check_spending_threshold_alerts(transactions, alert_configs, now, raises) ==
    IF raises THEN <<>>
    ELSE ThresholdAlerts(ConfigsOfType(alert_configs, "spending_threshold"),
                         transactions, now)

RECURSIVE CategoryAlerts(_, _, _)
CategoryAlerts(configs, transactions, now) ==
    IF configs = <<>> THEN <<>>
    ELSE LET config == Head(configs)
             category_spending ==
                _calculate_category_spending(transactions, config.alert_name,
                                             config.threshold_period, now)
         IN  (IF category_spending > config.threshold_value
                 THEN <<[type |-> "category_budget",
                         description |-> "You've spent more than your budget",
                         data |-> [category |-> config.alert_name,
                                   threshold_value |-> config.threshold_value,
                                   actual_spending |-> category_spending,
                                   period |-> config.threshold_period,
                                   excess_amount |->
                                      category_spending - config.threshold_value],
                         priority |-> 3,
                         alert_config_id |-> Some(config.id)]>>
                 ELSE <<>>)
             \o CategoryAlerts(Tail(configs), transactions, now)

_check_category_budget_alerts(transactions, alert_configs, now, raises) ==
    IF raises THEN <<>>
    ELSE CategoryAlerts(ConfigsOfType(alert_configs, "category_budget"),
                        transactions, now)

\* _detect_unusual_patterns: [] when the analysis is missing or has no
\* "unusual_patterns"; pattern.get("description", default)
RECURSIVE UnusualPatterns(_)
UnusualPatterns(patterns) ==
    IF patterns = <<>> THEN <<>>
    ELSE <<[description |-> ConfigGet(Head(patterns), "description",
                                      "Unusual spending pattern detected"),
            data |-> ConfigGet(Head(patterns), "data", <<>>)]>>
         \o UnusualPatterns(Tail(patterns))

_detect_unusual_patterns(analysis) ==
    IF analysis = None \/ "unusual_patterns" \notin DOMAIN Get(analysis) THEN <<>>
    ELSE UnusualPatterns(Get(analysis).unusual_patterns)

RECURSIVE UnusualAlerts(_)
UnusualAlerts(patterns) ==
    IF patterns = <<>> THEN <<>>
    ELSE <<[type |-> "unusual_spending",
            description |-> Head(patterns).description,
            data |-> Head(patterns).data,
            priority |-> 2,
            alert_config_id |-> None]>> \o UnusualAlerts(Tail(patterns))

_check_unusual_spending_alerts(transactions, analysis, raises) ==
    IF raises THEN <<>>
    ELSE IF Len(transactions) < 10 THEN <<>>
    ELSE UnusualAlerts(_detect_unusual_patterns(analysis))

RECURSIVE BalanceAlerts(_, _)
BalanceAlerts(configs, current_balance) ==
    IF configs = <<>> THEN <<>>
    ELSE (IF current_balance < Head(configs).threshold_value
             THEN <<[type |-> "low_balance",
                     description |-> "Your current balance is below your threshold",
                     data |-> [current_balance |-> current_balance,
                               threshold_value |-> Head(configs).threshold_value,
                               deficit |-> Head(configs).threshold_value - current_balance],
                     priority |-> 4,
                     alert_config_id |-> Some(Head(configs).id)]>>
             ELSE <<>>)
         \o BalanceAlerts(Tail(configs), current_balance)

_check_balance_alerts(alert_configs, current_balance, raises) ==
    IF raises THEN <<>>
    ELSE BalanceAlerts(ConfigsOfType(alert_configs, "low_balance"), current_balance)

\* _analyze_spending_improvements keeps the improvements that are positive
RECURSIVE PositiveImprovements(_)
PositiveImprovements(improvements) ==
    IF improvements = <<>> THEN <<>>
    ELSE (IF ConfigGet(Head(improvements), "is_positive", FALSE)
             THEN <<[description |-> ConfigGet(Head(improvements), "description",
                                               "Positive spending improvement detected"),
                     data |-> ConfigGet(Head(improvements), "data", <<>>),
                     is_positive |-> TRUE]>>
             ELSE <<>>)
         \o PositiveImprovements(Tail(improvements))

_analyze_spending_improvements(analysis) ==
    IF analysis = None \/ "improvements" \notin DOMAIN Get(analysis) THEN <<>>
    ELSE PositiveImprovements(Get(analysis).improvements)

RECURSIVE ImprovementAlerts(_)
ImprovementAlerts(improvements) ==
    IF improvements = <<>> THEN <<>>
    ELSE <<[type |-> "improvement_alert",
            description |-> Head(improvements).description,
            data |-> Head(improvements).data,
            priority |-> 1,
            alert_config_id |-> None]>> \o ImprovementAlerts(Tail(improvements))

_check_improvement_alerts(transactions, analysis, raises) ==
    IF raises THEN <<>>
    ELSE IF Len(transactions) < 20 THEN <<>>
    ELSE ImprovementAlerts(_analyze_spending_improvements(analysis))

CheckNames ==
    {"spending_threshold", "category_budget", "unusual_spending", "low_balance",
     "improvement_alert"}

\* a variant: a check that fails is not caught in the check, and the except
\* branch of check_alerts answers for all of them
check_alerts_caught_outside(transactions, alert_configs, env) ==
    IF transactions = <<>> \/ env.failing # {} THEN <<>>
    ELSE _check_spending_threshold_alerts(transactions, alert_configs, env.now, FALSE)
         \o _check_category_budget_alerts(transactions, alert_configs, env.now, FALSE)
         \o _check_unusual_spending_alerts(transactions, env.unusual, FALSE)
         \o _check_balance_alerts(alert_configs, env.balance, FALSE)
         \o _check_improvement_alerts(transactions, env.improvements, FALSE)

\* env: the time, the checks in which an exception is raised, the answers of
\* the AI Gateway and the balance of the ledger
check_alerts(transactions, alert_configs, env) ==
    IF transactions = <<>> THEN <<>>
    ELSE _check_spending_threshold_alerts(transactions, alert_configs, env.now,
                                          "spending_threshold" \in env.failing)
         \o _check_category_budget_alerts(transactions, alert_configs, env.now,
                                          "category_budget" \in env.failing)
         \o _check_unusual_spending_alerts(transactions, env.unusual,
                                           "unusual_spending" \in env.failing)
         \o _check_balance_alerts(alert_configs, env.balance,
                                  "low_balance" \in env.failing)
         \o _check_improvement_alerts(transactions, env.improvements,
                                      "improvement_alert" \in env.failing)

-----------------------------------------------------------------------------
(* Inputs of check_alerts *)

Tx(amount, repr, at, description) ==
    [amount |-> amount, timestamp |-> [repr |-> repr, at |-> at],
     description |-> description]

TimestampKinds == {"iso", "iso_z", "datetime"}

\* datetime.now(), in hours: 16:00 of one day, 02:00 of the next
Nows == {1000, 1010}

AlertTransactions ==
    {<<>>}
    \cup {<<Tx(100, r, 999, "Starbucks coffee"), Tx(50, r, 990, "Lunch")>> :
             r \in TimestampKinds}
    \cup {<<Tx(100, r, 1009, "Cafe")>> : r \in TimestampKinds}
    \cup { <<Tx(60, "iso", 999, "Coffee"), Tx(40, "datetime", 900, "Amazon"),
             Tx(30, "iso", 500, "Netflix"), Tx(20, "iso", 100, "Dinner")>>,
           <<Tx(100, "iso", 999, "Coffee"), Tx(50, "iso_z", 999, "Coffee")>>,
           [i \in 1..10 |-> Tx(20, "datetime", 999, "Store")],
           [i \in 1..20 |-> Tx(10, "datetime", 999, "Store")] }

AlertConfig(id, type, name, value, period) ==
    [id |-> id, alert_type |-> type, alert_name |-> name,
     threshold_value |-> value, threshold_period |-> period]

\* what _get_user_alert_configs returned: the active configurations of the
\* user, [] when the read failed
AlertConfigLists ==
    { <<>>,
      <<AlertConfig(1, "spending_threshold", "Daily limit", 100, "daily")>>,
      <<AlertConfig(1, "spending_threshold", "Weekly limit", 100, "weekly"),
        AlertConfig(2, "spending_threshold", "Monthly limit", 120, "monthly")>>,
      <<AlertConfig(1, "spending_threshold", "Limit", 100, "yearly"),
        AlertConfig(2, "category_budget", "Coffee", 50, "daily"),
        AlertConfig(3, "low_balance", "Balance", 100, "daily")>> }

UnusualAnswers ==
    { None,
      Some([unusual_patterns |-> <<[description |-> "Spending doubled on Friday"]>>]),
      Some([unusual_patterns |-> <<[description |-> ""], [data |-> <<>>]>>]) }

ImprovementAnswers ==
    { None,
      Some([improvements |-> <<[is_positive |-> TRUE, description |-> "Less on coffee"],
                               [is_positive |-> FALSE, description |-> "More on food"],
                               [is_positive |-> TRUE]>>]) }

Balances == {20, 500}

AlertEnvironments ==
    [now : Nows, failing : SUBSET CheckNames, unusual : UnusualAnswers,
     improvements : ImprovementAnswers, balance : Balances]

InitAlerts ==
    /\ pc = "check_alerts"
    /\ query = None
    /\ gateway = NoAnswer
    /\ query_intent = None
    /\ QueryIdle
    /\ PrefIdle
    /\ ExtraIdle

CheckAlertsCall ==
    /\ pc = "check_alerts"
    /\ \E transactions \in AlertTransactions, alert_configs \in AlertConfigLists,
          env \in AlertEnvironments :
          call' = [transactions |-> transactions, alert_configs |-> alert_configs,
                   env |-> env,
                   alerts |-> check_alerts(transactions, alert_configs, env)]
    /\ pc' = "returned"
    /\ UNCHANGED queryVars
    /\ UNCHANGED prefVars
    /\ UNCHANGED <<upserts, alert_configurations, ai_insights>>

NextAlerts == CheckAlertsCall

SpecAlerts == InitAlerts /\ [][NextAlerts]_vars

-----------------------------------------------------------------------------
(* Claims about check_alerts, under SpecAlerts *)

\* what a check contributes: nothing when it failed, its alerts otherwise
Contribution(name, list) == IF name \in call.env.failing THEN <<>> ELSE list

\* C13: the five checks of check_alerts are isolated: whichever of them fail
\* with an exception, the returned list is the concatenation, in the order
\* spending_threshold, category_budget, unusual_spending, low_balance,
\* improvement_alert, of the alerts of the checks that did not fail, a failed
\* check contributing the empty list.
C13_ChecksIsolated ==
    (pc = "returned" /\ call.transactions # <<>>) =>
        call.alerts =
            Contribution("spending_threshold",
                _check_spending_threshold_alerts(call.transactions, call.alert_configs,
                                                 call.env.now, FALSE))
            \o Contribution("category_budget",
                _check_category_budget_alerts(call.transactions, call.alert_configs,
                                              call.env.now, FALSE))
            \o Contribution("unusual_spending",
                _check_unusual_spending_alerts(call.transactions, call.env.unusual, FALSE))
            \o Contribution("low_balance",
                _check_balance_alerts(call.alert_configs, call.env.balance, FALSE))
            \o Contribution("improvement_alert",
                _check_improvement_alerts(call.transactions, call.env.improvements, FALSE))

\* the threshold check failed where it had an alert to give, and the alerts
\* of the category and balance checks were returned all the same
C13_Witness ==
    /\ pc = "returned"
    /\ call.env.failing = {"spending_threshold"}
    /\ _check_spending_threshold_alerts(call.transactions, call.alert_configs,
                                        call.env.now, FALSE) # <<>>
    /\ Len(call.alerts) = 2
    /\ call.alerts[1].type = "category_budget"
    /\ call.alerts[2].type = "low_balance"

AlertsOfConfig(config) ==
    {i \in 1..Len(call.alerts) :
        /\ call.alerts[i].type = "spending_threshold"
        /\ call.alerts[i].alert_config_id = Some(config.id)}

\* C14: for each spending_threshold configuration with threshold T and
\* period P, check_alerts gives exactly one spending_threshold alert, with
\* excess_amount S - T, when the sum S of the amounts of the transactions
\* in P's window is greater than T, and none when S <= T, whether the
\* timestamps are ISO strings, with or without a trailing "Z", or datetimes.
C14_ThresholdAlert ==
    (/\ pc = "returned"
     /\ call.transactions # <<>>
     /\ "spending_threshold" \notin call.env.failing) =>
        \A k \in 1..Len(call.alert_configs) :
            LET config == call.alert_configs[k]
                S == SumSince(call.transactions,
                              StartDate(config.threshold_period, call.env.now))
                T == config.threshold_value
            IN  config.alert_type = "spending_threshold" =>
                   IF S > T
                      THEN /\ Cardinality(AlertsOfConfig(config)) = 1
                           /\ \A i \in AlertsOfConfig(config) :
                                 call.alerts[i].data.excess_amount = S - T
                      ELSE AlertsOfConfig(config) = {}

\* C17: every alert of check_alerts carries a non-empty description and a
\* priority in 1..5, whatever the AI Gateway answered.
C17_DescriptionAndPriority ==
    pc = "returned" =>
        \A i \in 1..Len(call.alerts) :
            /\ call.alerts[i].description # ""
            /\ call.alerts[i].priority \in 1..5

-----------------------------------------------------------------------------
(* Orchestrator: generate_daily_insights *)

\* the insights of one run, before they are saved: the three analyses, then
\* the alerts
DailyInsights(recent_transactions, analysis, alert_configs, env) ==
    Collect(analyze_spending_trends(recent_transactions, analysis))
        \o Collect(analyze_spending_categories(recent_transactions))
        \o Collect(analyze_improvements(recent_transactions))
        \o check_alerts(recent_transactions, alert_configs, env)

DailyEnvironments ==
    [now : {1000}, failing : {{}}, unusual : UnusualAnswers, improvements : {None},
     balance : Balances]

\* insight["id"] = insight_id
WithId(insight, id) ==
    [k \in DOMAIN insight \cup {"id"} |-> IF k = "id" THEN id ELSE insight[k]]

\* the row save_insight inserts
InsightRow(id, username, insight) ==
    [id |-> id, username |-> username, insight_type |-> insight.type,
     priority |-> insight.priority]

InitDaily ==
    /\ pc = "generate_daily_insights"
    /\ query = None
    /\ gateway = NoAnswer
    /\ query_intent = None
    /\ QueryIdle
    /\ PrefIdle
    /\ upserts = <<>>
    /\ alert_configurations = {}
    /\ ai_insights = <<>>
    /\ call = [todo |-> <<>>, saved |-> <<>>, returned |-> None]

\* get_user_transactions, the three analyses and check_alerts; an empty
\* transaction list, or a read that raises, ends the call with []
GatherInsights ==
    /\ pc = "generate_daily_insights"
    /\ \E recent_transactions \in AlertTransactions, read_ok \in BOOLEAN,
          analysis \in AnalysisAnswers, alert_configs \in AlertConfigLists,
          env \in DailyEnvironments :
          IF ~read_ok \/ recent_transactions = <<>>
             THEN /\ call' = [call EXCEPT !.returned = Some(<<>>)]
                  /\ pc' = "returned"
             ELSE /\ call' = [call EXCEPT !.todo =
                                 DailyInsights(recent_transactions, analysis,
                                               alert_configs, env)]
                  /\ pc' = "save_insights"
    /\ UNCHANGED queryVars
    /\ UNCHANGED prefVars
    /\ UNCHANGED <<upserts, alert_configurations, ai_insights>>

\* one turn of the loop "for insight in insights": save_insight returns the
\* id of the new row, or raises what the database raised, and the except
\* branch of generate_daily_insights returns []
SaveInsightNext ==
    /\ pc = "save_insights"
    /\ call.todo # <<>>
    /\ \E write_ok \in BOOLEAN :
          IF write_ok
             THEN LET insight_id == Len(ai_insights) + 1
                  IN  /\ ai_insights' = Append(ai_insights,
                            InsightRow(insight_id, Username, Head(call.todo)))
                      /\ call' = [call EXCEPT
                                    !.todo = Tail(call.todo),
                                    !.saved = Append(@, WithId(Head(call.todo), insight_id))]
                      /\ pc' = pc
             ELSE /\ ai_insights' = ai_insights
                  /\ call' = [call EXCEPT !.returned = Some(<<>>)]
                  /\ pc' = "returned"
    /\ UNCHANGED queryVars
    /\ UNCHANGED prefVars
    /\ UNCHANGED <<upserts, alert_configurations>>

ReturnDaily ==
    /\ pc = "save_insights"
    /\ call.todo = <<>>
    /\ call' = [call EXCEPT !.returned = Some(call.saved)]
    /\ pc' = "returned"
    /\ UNCHANGED queryVars
    /\ UNCHANGED prefVars
    /\ UNCHANGED <<upserts, alert_configurations, ai_insights>>

NextDaily == GatherInsights \/ SaveInsightNext \/ ReturnDaily

SpecDaily == InitDaily /\ [][NextDaily]_vars

\* C15: the list generate_daily_insights returns holds exactly the insights
\* this call wrote to the store, each with the id generated for it, also
\* when a write fails part-way through the loop: no insight is persisted by
\* the call without appearing in its result.
C15_ReturnsPersisted ==
    pc = "returned" =>
        LET returned == Get(call.returned)
        IN  /\ Len(returned) = Len(ai_insights)
            /\ \A i \in 1..Len(returned) :
                  /\ returned[i].id = ai_insights[i].id
                  /\ returned[i].type = ai_insights[i].insight_type

-----------------------------------------------------------------------------
(* The alert_configurations table and its three writers *)

\* the number of writer calls of one behaviour
MaxAlertCalls == 2

AlertTypes == {"spending_threshold"}
AlertNames == {"Daily limit", "Weekly limit"}
\* threshold_value is a float of the request with no validator
\* (AlertConfigRequest) and a DECIMAL(15,2) NOT NULL of the table
ThresholdValues == {100, 250, -5}
ThresholdPeriods == {"daily", "weekly"}
NotificationMethods == {"in_app", "email"}

\* the row an INSERT INTO alert_configurations creates: id is SERIAL,
\* is_active is DEFAULT TRUE
AlertConfigurationRow(id, username, alert_type, alert_name, threshold_value, threshold_period, notification_method) ==
    [id |-> id, username |-> username, alert_type |-> alert_type,
     alert_name |-> alert_name, threshold_value |-> threshold_value,
     threshold_period |-> threshold_period,
     notification_method |-> notification_method, is_active |-> TRUE]

NextAlertId(table) == Cardinality(table) + 1

\* the INSERT of create_alert_configuration: no existence check in the
\* method, no ON CONFLICT in the statement, no UNIQUE constraint in the table
InsertAlertConfiguration(table, username, alert_type, alert_name, threshold_value, threshold_period, notification_method) ==
    table \cup {AlertConfigurationRow(NextAlertId(table), username, alert_type,
                                      alert_name, threshold_value,
                                      threshold_period, notification_method)}

\* the rows of the conflict target (username, alert_type, alert_name)
ConflictingRows(table, username, alert_type, alert_name) ==
    {r \in table : /\ r.username = username
                   /\ r.alert_type = alert_type
                   /\ r.alert_name = alert_name}

\* the alert_config dictionaries given to set_alert_preferences; a key that
\* is absent takes the default of alert_config.get
AlertPreferenceInputs ==
    { <<>>,
      [alert_name |-> "Daily limit", threshold_value |-> 250],
      [alert_name |-> "Daily limit", threshold_value |-> -5,
       threshold_period |-> "weekly"],
      [alert_type |-> "spending_threshold", alert_name |-> "Weekly limit",
       threshold_value |-> 100, threshold_period |-> "weekly",
       notification_method |-> "email"] }

AlertPreferenceParams(alert_config) ==
    [alert_type |-> ConfigGet(alert_config, "alert_type", "spending_threshold"),
     alert_name |-> ConfigGet(alert_config, "alert_name", "Default Alert"),
     threshold_value |-> ConfigGet(alert_config, "threshold_value", 100),
     threshold_period |-> ConfigGet(alert_config, "threshold_period", "daily"),
     notification_method |-> ConfigGet(alert_config, "notification_method", "in_app")]

\* the updates dictionaries given to update_alert_configuration
AlertUpdateInputs ==
    { <<>>,
      [alert_name |-> "Renamed"],
      [threshold_value |-> -5],
      [threshold_value |-> 250, threshold_period |-> "weekly"],
      [is_active |-> FALSE, alert_name |-> "Renamed"],
      [username |-> "otheruser", alert_type |-> "category_budget",
       threshold_period |-> "weekly"] }

UpdatableColumns ==
    {"threshold_value", "threshold_period", "notification_method", "is_active"}

\* set_clauses: the keys of updates that are columns the method may set
SetClauses(updates) == DOMAIN updates \cap UpdatableColumns

\* a variant: every key of updates that names a column is set
update_alert_rows_any_column(table, alert_id, username, updates) ==
    {IF r.id = alert_id /\ r.username = username
     THEN [k \in DOMAIN r |-> IF k \in DOMAIN updates THEN updates[k] ELSE r[k]]
     ELSE r : r \in table}

\* UPDATE alert_configurations SET ... WHERE id = :alert_id AND username = :username
UpdateAlertRows(table, alert_id, username, updates) ==
    {IF r.id = alert_id /\ r.username = username
     THEN [k \in DOMAIN r |-> IF k \in SetClauses(updates) THEN updates[k] ELSE r[k]]
     ELSE r : r \in table}

InitAlertConfigs ==
    /\ pc = "alert_configurations"
    /\ query = None
    /\ gateway = NoAnswer
    /\ query_intent = None
    /\ QueryIdle
    /\ PrefIdle
    /\ upserts = <<>>
    /\ alert_configurations = {}
    /\ ai_insights = <<>>
    /\ call = [method |-> "none"]

\* AlertNotificationAgent.create_alert_configuration
CreateAlertConfiguration ==
    /\ pc = "alert_configurations"
    /\ served < MaxAlertCalls
    /\ \E username \in Usernames, alert_type \in AlertTypes,
          alert_name \in AlertNames, threshold_value \in ThresholdValues,
          threshold_period \in ThresholdPeriods,
          notification_method \in NotificationMethods, write_ok \in BOOLEAN :
          /\ alert_configurations' =
                IF write_ok
                THEN InsertAlertConfiguration(alert_configurations, username,
                         alert_type, alert_name, threshold_value,
                         threshold_period, notification_method)
                ELSE alert_configurations
          /\ call' = [method |-> "create_alert_configuration",
                      username |-> username, alert_type |-> alert_type,
                      alert_name |-> alert_name,
                      threshold_value |-> threshold_value,
                      threshold_period |-> threshold_period,
                      notification_method |-> notification_method,
                      before |-> alert_configurations,
                      returned |-> write_ok]
    /\ served' = served + 1
    /\ UNCHANGED <<pc, query, gateway, query_intent, user_preferences, sql_text,
                   sql_query, data, insights, visualizations, log_result, stages,
                   result, user_interactions>>
    /\ UNCHANGED prefVars
    /\ UNCHANGED <<upserts, ai_insights>>

\* UserPreferenceAgent.set_alert_preferences: INSERT ... ON CONFLICT
\* (username, alert_type, alert_name) DO UPDATE. The table init_db creates
\* has no unique index on the conflict target, so the database either
\* rejects the statement (the method returns False) or applies it as written
SetAlertPreferences ==
    /\ pc = "alert_configurations"
    /\ served < MaxAlertCalls
    /\ \E username \in Usernames, alert_config \in AlertPreferenceInputs,
          write_ok \in BOOLEAN :
          LET p == AlertPreferenceParams(alert_config)
              conflicting == ConflictingRows(alert_configurations, username,
                                             p.alert_type, p.alert_name)
          IN  /\ IF ~write_ok
                    THEN alert_configurations' = alert_configurations
                    ELSE IF conflicting = {}
                    THEN alert_configurations' =
                            InsertAlertConfiguration(alert_configurations, username,
                                p.alert_type, p.alert_name, p.threshold_value,
                                p.threshold_period, p.notification_method)
                    ELSE \E row \in conflicting :
                            alert_configurations' =
                               (alert_configurations \ {row}) \cup
                               {[row EXCEPT
                                   !.threshold_value = p.threshold_value,
                                   !.threshold_period = p.threshold_period,
                                   !.notification_method = p.notification_method]}
              /\ call' = [method |-> "set_alert_preferences",
                          username |-> username, alert_type |-> p.alert_type,
                          alert_name |-> p.alert_name,
                          threshold_value |-> p.threshold_value,
                          threshold_period |-> p.threshold_period,
                          notification_method |-> p.notification_method,
                          before |-> alert_configurations,
                          returned |-> write_ok]
    /\ served' = served + 1
    /\ UNCHANGED <<pc, query, gateway, query_intent, user_preferences, sql_text,
                   sql_query, data, insights, visualizations, log_result, stages,
                   result, user_interactions>>
    /\ UNCHANGED prefVars
    /\ UNCHANGED <<upserts, ai_insights>>

\* AlertNotificationAgent.update_alert_configuration
UpdateAlertConfiguration ==
    /\ pc = "alert_configurations"
    /\ served < MaxAlertCalls
    /\ \E alert_id \in 1..MaxAlertCalls, username \in Usernames,
          updates \in AlertUpdateInputs, write_ok \in BOOLEAN :
          /\ alert_configurations' =
                IF SetClauses(updates) # {} /\ write_ok
                THEN UpdateAlertRows(alert_configurations, alert_id, username, updates)
                ELSE alert_configurations
          /\ call' = [method |-> "update_alert_configuration",
                      alert_id |-> alert_id, username |-> username,
                      updates |-> updates,
                      before |-> alert_configurations,
                      returned |-> (SetClauses(updates) # {} /\ write_ok)]
    /\ served' = served + 1
    /\ UNCHANGED <<pc, query, gateway, query_intent, user_preferences, sql_text,
                   sql_query, data, insights, visualizations, log_result, stages,
                   result, user_interactions>>
    /\ UNCHANGED prefVars
    /\ UNCHANGED <<upserts, ai_insights>>

NextAlertConfigs ==
    CreateAlertConfiguration \/ SetAlertPreferences \/ UpdateAlertConfiguration

SpecAlertConfigs == InitAlertConfigs /\ [][NextAlertConfigs]_vars

\* C16: the table holds at most one AlertConfiguration per (username,
\* alert_type, alert_name): a create_alert_configuration for a triple that
\* is already stored acts as an upsert, leaving one record of the triple
\* that carries the new threshold_value, threshold_period and
\* notification_method.
C16_UniquePerTriple ==
    /\ \A r1, r2 \in alert_configurations :
          (/\ r1.username = r2.username
           /\ r1.alert_type = r2.alert_type
           /\ r1.alert_name = r2.alert_name) => r1 = r2
    /\ (/\ call.method = "create_alert_configuration"
        /\ call.returned
        /\ ConflictingRows(call.before, call.username, call.alert_type,
                           call.alert_name) # {})
       => \A r \in ConflictingRows(alert_configurations, call.username,
                                   call.alert_type, call.alert_name) :
             /\ r.threshold_value = call.threshold_value
             /\ r.threshold_period = call.threshold_period
             /\ r.notification_method = call.notification_method

\* C18: after any sequence of create_alert_configuration,
\* set_alert_preferences and update_alert_configuration calls, every stored
\* threshold_value is non-negative: a negative value that is supplied is
\* never stored.
C18_NonNegativeThreshold ==
    \A r \in alert_configurations : r.threshold_value >= 0

-----------------------------------------------------------------------------
(* create_visualizations as a call of its own *)

\* the rows handed to create_visualizations: with a timestamp column,
\* without one, and none
VisualizationRows ==
    { <<>>,
      <<[total |-> 175]>>,
      <<[amount |-> 50, timestamp |-> Day], [amount |-> 600, timestamp |-> Day]>> }

\* the fields of the intent that the agent reads
VisualizationIntents ==
    [analysis_type : AnalysisTypes, needs_visualization : BOOLEAN]

\* the insights handed to create_visualizations
VisualizationInsights ==
    { <<>>,
      <<[type |-> "category_analysis", title |-> "Spending Category Breakdown",
         priority |-> 2, visualization_config |-> [chart_type |-> "pie"]]>> }

InitVisualize ==
    /\ pc = "create_visualizations"
    /\ query = None
    /\ gateway = NoAnswer
    /\ query_intent = None
    /\ QueryIdle
    /\ PrefIdle
    /\ upserts = <<>>
    /\ alert_configurations = {}
    /\ ai_insights = <<>>
    /\ \E rows \in VisualizationRows, found \in VisualizationInsights,
          intent \in VisualizationIntents, config \in ConfigAnswers :
          call = [data |-> rows, insights |-> found, query_intent |-> intent,
                  config |-> config, returned |-> None]

\* DataVisualizationAgent.create_visualizations; config is what
\* generate_structured_response answers to the builder, None when the call
\* failed or returned nothing
CreateVisualizationsCall ==
    /\ pc = "create_visualizations"
    /\ call' = [call EXCEPT !.returned =
                   Some(create_visualizations(call.data, call.insights,
                                              call.query_intent, call.config))]
    /\ pc' = "returned"
    /\ UNCHANGED queryVars
    /\ UNCHANGED prefVars
    /\ UNCHANGED <<upserts, alert_configurations, ai_insights>>

NextVisualize == CreateVisualizationsCall

SpecVisualize == InitVisualize /\ [][NextVisualize]_vars

\* C19: when needs_visualization is true and the AI call of the selected
\* builder failed or returned nothing, the builder still produces a
\* configuration from its fixed defaults, so create_visualizations returns
\* at least one visualization; for the trend builder this holds when the
\* first data row has a timestamp.
C19_DefaultsWithoutAI ==
    (/\ pc = "returned"
     /\ call.query_intent.needs_visualization
     /\ call.config = None
     /\ (call.query_intent.analysis_type = "spending_trends"
            => (call.data # <<>> /\ "timestamp" \in DOMAIN call.data[1])))
    => Len(Get(call.returned)) >= 1

-----------------------------------------------------------------------------
(* The amount ranges of analyze_spending_categories *)

\* the number of transactions of one call
MaxTransactions == 3

SmallPurchases == "Small purchases (<$50)"
MediumPurchases == "Medium purchases ($50-$200)"
LargePurchases == "Large purchases ($200-$500)"
VeryLargePurchases == "Very large purchases (>$500)"

CategoryNames == {SmallPurchases, MediumPurchases, LargePurchases, VeryLargePurchases}

\* a variant: the ranges closed on the right
category_of_amount_closed_right(amount) ==
    IF amount <= 50 THEN SmallPurchases
    ELSE IF amount <= 200 THEN MediumPurchases
    ELSE IF amount <= 500 THEN LargePurchases
    ELSE VeryLargePurchases

\* the if/elif chain of the loop
CategoryOfAmount(amount) ==
    IF amount < 50 THEN SmallPurchases
    ELSE IF amount < 200 THEN MediumPurchases
    ELSE IF amount < 500 THEN LargePurchases
    ELSE VeryLargePurchases

\* the CASE expression of DataAnalystAgent.get_spending_by_category
SqlCategoryOfAmount(amount) ==
    IF amount < 50 THEN "Small purchases"
    ELSE IF amount < 200 THEN "Medium purchases"
    ELSE IF amount < 500 THEN "Large purchases"
    ELSE "Very large purchases"

RECURSIVE CategorizeTransactions(_)
\* "for transaction in transactions": categories and total_amount after the
\* loop, the additions made in the order of the list
CategorizeTransactions(transactions) ==
    IF transactions = <<>>
    THEN [categories |-> [c \in CategoryNames |-> 0], total_amount |-> 0]
    ELSE LET before == CategorizeTransactions(SubSeq(transactions, 1, Len(transactions) - 1))
             amount == Amount(transactions[Len(transactions)])
         IN  [categories |-> [before.categories EXCEPT ![CategoryOfAmount(amount)] = @ + amount],
              total_amount |-> before.total_amount + amount]

\* the "data" of the insight analyze_spending_categories returns, None when
\* there is no transaction
CategoryAnalysisData(transactions) ==
    IF analyze_spending_categories(transactions) = None THEN None
    ELSE Some(CategorizeTransactions(transactions))

\* the keys of categories in the order of the dict
CategoryOrder == <<SmallPurchases, MediumPurchases, LargePurchases, VeryLargePurchases>>

\* a variant: of the largest buckets the one that comes last
top_category_last(categories) ==
    LET best == CHOOSE c \in CategoryNames : \A o \in CategoryNames : categories[o] <= categories[c]
        ties == {i \in 1..Len(CategoryOrder) : categories[CategoryOrder[i]] = categories[best]}
    IN  CategoryOrder[CHOOSE i \in ties : \A j \in ties : j <= i]

\* max(categories, key=categories.get): the first key, in the order of the
\* dict, that holds the largest sum
TopCategory(categories) ==
    LET best == CHOOSE c \in CategoryNames : \A o \in CategoryNames : categories[o] <= categories[c]
        ties == {i \in 1..Len(CategoryOrder) : categories[CategoryOrder[i]] = categories[best]}
    IN  CategoryOrder[CHOOSE i \in ties : \A j \in ties : i <= j]

\* "(top_amount / total_amount * 100) if total_amount > 0 else 0", exact
TopPercentage(top_amount, total_amount) ==
    IF total_amount > 0 THEN [num |-> top_amount * 100, den |-> total_amount]
    ELSE [num |-> 0, den |-> 1]

\* the insight of analyze_spending_categories; description is what
\* generate_insight_description answered, None when the AI Gateway failed
CategoryInsight(transactions, description) ==
    IF analyze_spending_categories(transactions) = None THEN None
    ELSE LET computed == CategorizeTransactions(transactions)
             top_category == TopCategory(computed.categories)
             top_amount == computed.categories[top_category]
         IN  Some([type |-> "category_analysis",
                   title |-> "Spending Category Breakdown",
                   description |-> IF description = None \/ Get(description) = ""
                                   THEN "Your spending is highest in " \o top_category
                                   ELSE Get(description),
                   data |-> [categories |-> computed.categories,
                             total_amount |-> computed.total_amount,
                             top_category |-> top_category,
                             top_percentage |-> TopPercentage(top_amount,
                                                              computed.total_amount)],
                   priority |-> 2])

\* what generate_insight_description answers
DescriptionAnswers == {None, Some(""), Some("Most of your money goes to mid-sized purchases.")}

\* the amounts of the ledger are whole numbers; a row may lack the column
CategoryRows ==
    {[amount |-> a] : a \in {-10, 0, 49, 50, 199, 200, 499, 500, 750}}
        \cup {[total |-> 175]}

\* the transactions of test_insight_generator, and a list whose Medium and
\* Large sums are equal
CategoryExamples ==
    { <<[amount |-> 50], [amount |-> 25], [amount |-> 100], [amount |-> 0]>>,
      <<[amount |-> 200], [amount |-> 100], [amount |-> 100]>> }

CategoryTransactions ==
    UNION {[1..n -> CategoryRows] : n \in 0..MaxTransactions} \cup CategoryExamples

InitCategories ==
    /\ pc = "analyze_spending_categories"
    /\ query = None
    /\ gateway = NoAnswer
    /\ query_intent = None
    /\ QueryIdle
    /\ PrefIdle
    /\ upserts = <<>>
    /\ alert_configurations = {}
    /\ ai_insights = <<>>
    /\ \E transactions \in CategoryTransactions, description \in DescriptionAnswers :
          call = [transactions |-> transactions, description |-> description,
                  returned |-> None, insight |-> None]

\* InsightGeneratorAgent.analyze_spending_categories
AnalyzeSpendingCategoriesCall ==
    /\ pc = "analyze_spending_categories"
    /\ call' = [call EXCEPT
                   !.returned = CategoryAnalysisData(call.transactions),
                   !.insight = CategoryInsight(call.transactions, call.description)]
    /\ pc' = "returned"
    /\ UNCHANGED queryVars
    /\ UNCHANGED prefVars
    /\ UNCHANGED <<upserts, alert_configurations, ai_insights>>

NextCategories == AnalyzeSpendingCategoriesCall

SpecCategories == InitCategories /\ [][NextCategories]_vars

\* the ranges as the claim states them
InRange(name, a) ==
    CASE name = SmallPurchases -> a < 50
      [] name = MediumPurchases -> 50 <= a /\ a < 200
      [] name = LargePurchases -> 200 <= a /\ a < 500
      [] name = VeryLargePurchases -> a >= 500

RECURSIVE SumInRange(_, _)
SumInRange(name, transactions) ==
    IF transactions = <<>> THEN 0
    ELSE (IF InRange(name, Amount(Head(transactions)))
             THEN Amount(Head(transactions)) ELSE 0)
         + SumInRange(name, Tail(transactions))

\* C20: the bucketing of analyze_spending_categories is a total function of
\* the amount: every amount falls in exactly one of Small (a < 50), Medium
\* (50 <= a < 200), Large (200 <= a < 500) and Very large (a >= 500), the
\* CASE of the SQL breakdown uses the same ranges, each bucket holds the sum
\* of the amounts of its range, and the four sums add up to total_amount.
C20_BucketsPartition ==
    (pc = "returned" /\ call.returned # None) =>
        LET computed == Get(call.returned)
            transactions == call.transactions
        IN  /\ \A i \in 1..Len(transactions) :
                  LET a == Amount(transactions[i])
                  IN  /\ Cardinality({c \in CategoryNames : InRange(c, a)}) = 1
                      /\ InRange(CategoryOfAmount(a), a)
                      /\ IsPrefix(SqlCategoryOfAmount(a), CategoryOfAmount(a))
            /\ \A c \in CategoryNames :
                  computed.categories[c] = SumInRange(c, transactions)
            /\ computed.categories[SmallPurchases]
                  + computed.categories[MediumPurchases]
                  + computed.categories[LargePurchases]
                  + computed.categories[VeryLargePurchases]
               = computed.total_amount
            /\ computed.total_amount = SumAmounts(transactions)

\* a call whose transactions sit on the three boundaries
C20_Witness ==
    /\ pc = "returned"
    /\ call.returned # None
    /\ {Amount(call.transactions[i]) : i \in 1..Len(call.transactions)} = {50, 200, 500}
    /\ Get(call.returned).categories[MediumPurchases] = 50
    /\ Get(call.returned).categories[LargePurchases] = 200
    /\ Get(call.returned).categories[VeryLargePurchases] = 500

-----------------------------------------------------------------------------
(* The two periods of analyze_improvements *)

\* the longest transaction list of one call
MaxImprovementRows == 11

\* a quotient of two integers, kept exact: the averages and the percentage
\* are compared through their numerators and denominators
Fraction(num, den) == [num |-> num, den |-> den]
FractionEq(f, g) == f.num * g.den = g.num * f.den
FractionGt(f, k) == IF f.den > 0 THEN f.num > k * f.den ELSE f.num < k * f.den

\* "total / len(period) if period else 0"
PeriodAverage(total, count) ==
    IF count > 0 THEN Fraction(total, count) ELSE Fraction(0, 1)

\* a variant: the percentage computed without the test of older_avg
improvement_pct_unguarded(recent_total, recent_count, older_total, older_count) ==
    Fraction((older_total * recent_count - recent_total * older_count) * 100,
             older_total * recent_count)

\* "if older_avg > 0: ((older_avg - recent_avg) / older_avg) * 100 else 0"
ImprovementPct(recent_total, recent_count, older_total, older_count) ==
    IF older_count > 0 /\ older_total > 0
    THEN Fraction((older_total * recent_count - recent_total * older_count) * 100,
                  older_total * recent_count)
    ELSE Fraction(0, 1)

\* analysis_data of two periods
PeriodComparison(recent_transactions, older_transactions) ==
    LET recent_total == SumAmounts(recent_transactions)
        older_total == SumAmounts(older_transactions)
        improvement_pct == ImprovementPct(recent_total, Len(recent_transactions),
                                          older_total, Len(older_transactions))
    IN  [recent_period |-> [total |-> recent_total,
                            average |-> PeriodAverage(recent_total, Len(recent_transactions)),
                            count |-> Len(recent_transactions)],
         older_period |-> [total |-> older_total,
                           average |-> PeriodAverage(older_total, Len(older_transactions)),
                           count |-> Len(older_transactions)],
         improvement_percentage |-> improvement_pct]

\* the insight of analyze_improvements with its "data"; a percentage that
\* cannot be computed raises, and the except branch returns None
ImprovementInsight(transactions) ==
    LET insight == analyze_improvements(transactions)
        mid_point == Len(transactions) \div 2
        compared == PeriodComparison(SubSeq(transactions, 1, mid_point),
                                     SubSeq(transactions, mid_point + 1, Len(transactions)))
    IN  IF insight = None THEN None
        ELSE IF compared.improvement_percentage.den = 0 THEN None
        ELSE Some([type |-> Get(insight).type,
                   priority |-> Get(insight).priority,
                   data |-> [recent_period |-> compared.recent_period,
                             older_period |-> compared.older_period,
                             improvement_percentage |-> compared.improvement_percentage,
                             is_improvement |-> is_improvement(transactions),
                             trend_direction |-> IF is_improvement(transactions)
                                                 THEN "decreased" ELSE "increased"]])

\* the amounts of the ledger are whole and not negative
ImprovementAmounts == {0, 40, 95, 100, 105}

\* lists whose first k amounts are one value and whose other amounts another
ImprovementTransactions ==
    { [i \in 1..n |-> [amount |-> IF i <= k THEN a ELSE b]] :
        n \in {0, 1} \cup (9..MaxImprovementRows), k \in 0..MaxImprovementRows,
        a \in ImprovementAmounts, b \in ImprovementAmounts }

InitImprovements ==
    /\ pc = "analyze_improvements"
    /\ query = None
    /\ gateway = NoAnswer
    /\ query_intent = None
    /\ QueryIdle
    /\ PrefIdle
    /\ upserts = <<>>
    /\ alert_configurations = {}
    /\ ai_insights = <<>>
    /\ \E transactions \in ImprovementTransactions :
          call = [transactions |-> transactions, returned |-> None]

\* InsightGeneratorAgent.analyze_improvements
AnalyzeImprovementsCall ==
    /\ pc = "analyze_improvements"
    /\ call' = [call EXCEPT !.returned = ImprovementInsight(call.transactions)]
    /\ pc' = "returned"
    /\ UNCHANGED queryVars
    /\ UNCHANGED prefVars
    /\ UNCHANGED <<upserts, alert_configurations, ai_insights>>

NextImprovements == AnalyzeImprovementsCall

SpecImprovements == InitImprovements /\ [][NextImprovements]_vars

\* C21: analyze_improvements returns no insight for fewer than 10
\* transactions; for n >= 10 the first floor(n/2) transactions are the
\* recent period and the rest the older period, improvement_percentage is
\* (olderAvg - recentAvg) / olderAvg * 100, is_improvement is
\* improvement_percentage > 5, trend_direction is "decreased" exactly when
\* is_improvement, and priority is 3 when is_improvement and 2 otherwise.
C21_ImprovementSplit ==
    pc = "returned" =>
        LET transactions == call.transactions
            n == Len(transactions)
            rn == n \div 2
            on == n - rn
            R == SumAmounts(SubSeq(transactions, 1, rn))
            O == SumAmounts(SubSeq(transactions, rn + 1, n))
        IN  /\ n < 10 => call.returned = None
            /\ n >= 10 =>
                  /\ call.returned # None
                  /\ LET insight == Get(call.returned)
                         pct == insight.data.improvement_percentage
                     IN  /\ insight.data.recent_period.count = rn
                         /\ insight.data.recent_period.total = R
                         /\ insight.data.older_period.count = on
                         /\ insight.data.older_period.total = O
                         /\ pct.den # 0
                         /\ O > 0 => pct.num * O * rn = (O * rn - R * on) * 100 * pct.den
                         /\ insight.data.is_improvement = FractionGt(pct, 5)
                         /\ insight.data.trend_direction =
                               (IF insight.data.is_improvement THEN "decreased" ELSE "increased")
                         /\ insight.priority = (IF insight.data.is_improvement THEN 3 ELSE 2)

\* ten transactions, the first five of 40 and the last five of 100: the
\* percentage is 60, is_improvement is true, the direction "decreased"
C21_Witness ==
    /\ pc = "returned"
    /\ call.transactions = [i \in 1..10 |-> [amount |-> IF i <= 5 THEN 40 ELSE 100]]
    /\ call.returned # None
    /\ FractionEq(Get(call.returned).data.improvement_percentage, Fraction(60, 1))
    /\ Get(call.returned).data.is_improvement
    /\ Get(call.returned).data.trend_direction = "decreased"
    /\ Get(call.returned).priority = 3

\* older average minus recent average of a comparison
AverageDifference(compared) ==
    Fraction(compared.older_period.average.num * compared.recent_period.average.den
                - compared.recent_period.average.num * compared.older_period.average.den,
             compared.older_period.average.den * compared.recent_period.average.den)

\* C22: when the average of the older period is 0, analyze_improvements
\* takes the improvement percentage as 0 without a division error and still
\* returns the insight, with is_improvement false; and comparing the two
\* periods the other way round negates (olderAvg - recentAvg).
C22_ZeroOlderAverage ==
    (pc = "returned" /\ Len(call.transactions) >= 10) =>
        LET transactions == call.transactions
            mid_point == Len(transactions) \div 2
            recent_transactions == SubSeq(transactions, 1, mid_point)
            older_transactions == SubSeq(transactions, mid_point + 1, Len(transactions))
            d == AverageDifference(PeriodComparison(recent_transactions, older_transactions))
            swapped == AverageDifference(PeriodComparison(older_transactions, recent_transactions))
        IN  /\ SumAmounts(older_transactions) = 0 =>
                  /\ call.returned # None
                  /\ Get(call.returned).data.improvement_percentage.den # 0
                  /\ Get(call.returned).data.improvement_percentage.num = 0
                  /\ Get(call.returned).data.is_improvement = FALSE
            /\ FractionEq(swapped, Fraction(0 - d.num, d.den))

\* a call whose older period sums to 0 while the recent one does not
C22_Witness ==
    /\ pc = "returned"
    /\ Len(call.transactions) = 10
    /\ SumAmounts(SubSeq(call.transactions, 6, 10)) = 0
    /\ SumAmounts(SubSeq(call.transactions, 1, 5)) = 200
    /\ call.returned # None
    /\ Get(call.returned).data.improvement_percentage.num = 0

-----------------------------------------------------------------------------
(* User Preference agent: learn_from_interaction *)

\* a preference value: a dict of texts, or a value that is no dict
DictValue(map) == [dict |-> TRUE, map |-> map]
ScalarValue(value) == [dict |-> FALSE, value |-> value]

\* {**current_value, **value}
MergeDicts(current_value, value) ==
    [k \in DOMAIN current_value \cup DOMAIN value |->
        IF k \in DOMAIN value THEN value[k] ELSE current_value[k]]

\* updated_value of _apply_learned_preferences
UpdatedValue(current_value, value) ==
    IF current_value.dict /\ value.dict
    THEN DictValue(MergeDicts(current_value.map, value.map))
    ELSE value

\* the "preferences" of the learning result: per type a dict of keys and
\* values, or a single value that is no dict
LearnedPreferences ==
    { <<>>,
      <<[type |-> "display",
         data |-> [dict |-> TRUE,
                   items |-> <<[key |-> "chart",
                                value |-> DictValue([kind |-> "pie", legend |-> "on"])]>>]]>>,
      <<[type |-> "display",
         data |-> [dict |-> TRUE,
                   items |-> <<[key |-> "chart", value |-> ScalarValue("bar")],
                               [key |-> "period", value |-> DictValue([days |-> "30"])]>>]]>>,
      <<[type |-> "favorite_chart", data |-> [dict |-> FALSE, value |-> ScalarValue("pie")]]>>,
      <<[type |-> "favorite_chart", data |-> [dict |-> FALSE, value |-> ScalarValue("pie")]],
        [type |-> "display",
         data |-> [dict |-> TRUE,
                   items |-> <<[key |-> "chart",
                                value |-> DictValue([kind |-> "pie"])]>>]]>> }

\* generate_structured_response on the learning prompt: nothing, an object
\* without "preferences", or an object with them
LearningResults ==
    {None, Some([suggestions |-> "more charts"])}
        \cup {Some([preferences |-> p]) : p \in LearnedPreferences}

RECURSIVE LearnedUpserts(_)
\* the (type, key, value) the loops of _apply_learned_preferences visit:
\* the items of the types whose data is a dict
LearnedUpserts(learned_preferences) ==
    IF learned_preferences = <<>> THEN <<>>
    ELSE LET p == Head(learned_preferences)
         IN  (IF p.data.dict THEN ItemsOf(p.type, p.data.items) ELSE <<>>)
             \o LearnedUpserts(Tail(learned_preferences))

ChartRow(id, value) ==
    [id |-> id, username |-> Username, preference_type |-> "display",
     preference_key |-> "chart", preference_value |-> value]

\* the user_preferences table before the call: empty, one row of
\* ("display", "chart") holding a dict or a value that is no dict, a row for
\* each of two keys, and the two rows of one key which two interleaved
\* upserts leave behind
LearnTables ==
    { {},
      {ChartRow(1, DictValue([kind |-> "line", size |-> "big"]))},
      {ChartRow(1, ScalarValue("line"))},
      {ChartRow(1, DictValue([kind |-> "line"])),
       [id |-> 2, username |-> Username, preference_type |-> "display",
        preference_key |-> "period", preference_value |-> DictValue([days |-> "7"])]},
      {ChartRow(1, DictValue([kind |-> "line", size |-> "big"])),
       ChartRow(2, DictValue([kind |-> "bar", colour |-> "red"]))} }

InitLearn ==
    /\ pc = "learn_from_interaction"
    /\ query = None
    /\ gateway = NoAnswer
    /\ query_intent = None
    /\ QueryIdle
    /\ preferences_table \in LearnTables
    /\ next_pref_id = Cardinality(preferences_table) + 1
    /\ saves = <<>>
    /\ upserts = <<>>
    /\ alert_configurations = {}
    /\ ai_insights = <<>>
    /\ call = [logged |-> FALSE, learned |-> None, todo |-> <<>>,
               completed |-> FALSE, last |-> None, returned |-> None]

\* db_manager.log_interaction: the id of the new row, or what the database
\* raised, which the except branch of learn_from_interaction turns into False
LogLearnedInteraction ==
    /\ pc = "learn_from_interaction"
    /\ \E write_ok \in BOOLEAN :
          IF write_ok
             THEN /\ user_interactions' =
                        Append(user_interactions,
                               [username |-> Username,
                                interaction_type |-> "viewed_insight"])
                  /\ call' = [call EXCEPT !.logged = TRUE]
                  /\ pc' = "_process_interaction_learning"
             ELSE /\ user_interactions' = user_interactions
                  /\ call' = [call EXCEPT !.returned = Some(FALSE)]
                  /\ pc' = "returned"
    /\ UNCHANGED <<query, gateway, query_intent, user_preferences, sql_text, sql_query,
                   data, insights, visualizations, log_result, stages, result, served>>
    /\ UNCHANGED prefVars
    /\ UNCHANGED <<upserts, alert_configurations, ai_insights>>

\* _process_interaction_learning up to the call of _apply_learned_preferences:
\* the read of the history gives rows, no row, or raises; the AI Gateway
\* answers the learning prompt
ProcessInteractionLearning ==
    /\ pc = "_process_interaction_learning"
    /\ \E read \in {"rows", "no rows", "raised"}, learning_result \in LearningResults :
          IF read = "rows" /\ Supplies(learning_result, "preferences")
             THEN /\ call' = [call EXCEPT
                                !.learned = Some(Get(learning_result)["preferences"]),
                                !.todo = LearnedUpserts(Get(learning_result)["preferences"])]
                  /\ pc' = "_apply_learned_preferences"
             ELSE /\ call' = [call EXCEPT !.returned = Some(TRUE)]
                  /\ pc' = "returned"
    /\ UNCHANGED queryVars
    /\ UNCHANGED prefVars
    /\ UNCHANGED <<upserts, alert_configurations, ai_insights>>

\* one turn of the inner loop of _apply_learned_preferences: the SELECT of
\* the current value, then save_user_preference with its own check; neither
\* statement has an ORDER BY, so each takes any row of the key as its first.
\* What the database raises is logged and ends the learning step
ApplyLearnedNext ==
    /\ pc = "_apply_learned_preferences"
    /\ call.todo # <<>>
    /\ LET item == Head(call.todo)
           current_prefs == Existing(preferences_table, Username, item.preference_type,
                                     item.preference_key)
       IN  \E write_ok \in BOOLEAN :
              IF write_ok
                 THEN /\ IF current_prefs # {}
                            THEN \E current \in current_prefs, first \in current_prefs :
                                    /\ preferences_table' =
                                          UpdateRow(preferences_table, first.id,
                                                    UpdatedValue(current.preference_value,
                                                                 item.preference_value))
                                    /\ next_pref_id' = next_pref_id
                            ELSE /\ preferences_table' =
                                       InsertRow(preferences_table, next_pref_id,
                                                 Username, item.preference_type,
                                                 item.preference_key,
                                                 item.preference_value)
                                 /\ next_pref_id' = next_pref_id + 1
                      /\ call' = [call EXCEPT
                                    !.todo = Tail(call.todo),
                                    !.last = Some([item |-> item, before |-> current_prefs])]
                      /\ pc' = pc
                 ELSE /\ UNCHANGED <<preferences_table, next_pref_id>>
                      /\ call' = [call EXCEPT !.returned = Some(TRUE)]
                      /\ pc' = "returned"
    /\ UNCHANGED queryVars
    /\ UNCHANGED <<saves, upserts, alert_configurations, ai_insights>>

\* the loops are over: learn_from_interaction returns True
ReturnLearn ==
    /\ pc = "_apply_learned_preferences"
    /\ call.todo = <<>>
    /\ call' = [call EXCEPT !.completed = TRUE, !.returned = Some(TRUE)]
    /\ pc' = "returned"
    /\ UNCHANGED queryVars
    /\ UNCHANGED prefVars
    /\ UNCHANGED <<upserts, alert_configurations, ai_insights>>

NextLearn ==
    LogLearnedInteraction \/ ProcessInteractionLearning \/ ApplyLearnedNext \/ ReturnLearn

SpecLearn == InitLearn /\ [][NextLearn]_vars

\* C23: a "preferences" mapping of the learning result is applied with the
\* upsert rule of update_preferences: after a learning step that ran to its
\* end, every (type, subkey) of a type whose learned value is a mapping has
\* a Preference, and every type whose learned value is no mapping has one
\* Preference with key "default" that holds the learned value.
C23_LearnedLikeUpdate ==
    (pc = "returned" /\ call.completed) =>
        LET learned == Get(call.learned)
        IN  \A i \in 1..Len(learned) :
               IF learned[i].data.dict
               THEN \A j \in 1..Len(learned[i].data.items) :
                       Existing(preferences_table, Username, learned[i].type,
                                learned[i].data.items[j].key) # {}
               ELSE \E r \in Existing(preferences_table, Username, learned[i].type, "default") :
                       r.preference_value = learned[i].data.value

\* the value the claim requires in a record after a learned value is applied
ExpectedAfterLearning(existing, learned) ==
    IF existing.dict /\ learned.dict
    THEN DictValue([k \in DOMAIN existing.map \cup DOMAIN learned.map |->
                       IF k \in DOMAIN learned.map THEN learned.map[k] ELSE existing.map[k]])
    ELSE learned

\* every record of the key that existed before the step holds the value
\* the claim requires
LearnedStepMerges ==
    (pc = "_apply_learned_preferences" /\ call.last # None) =>
        LET step == Get(call.last)
        IN  \A r \in step.before :
               \E s \in preferences_table :
                  /\ s.id = r.id
                  /\ s.preference_value =
                        ExpectedAfterLearning(r.preference_value, step.item.preference_value)

\* C24: when a learned preference is applied to an existing (username, type,
\* key) record, the stored value afterwards is the key-by-key merge of the
\* existing and the learned mapping, learned values first, when both are
\* mappings, and the learned value when either is not; and a failure inside
\* the learning step is swallowed, so that learn_from_interaction returns
\* true whenever the interaction was logged.
C24_MergeLearned ==
    /\ LearnedStepMerges
    /\ (pc = "returned" /\ call.logged) => call.returned = Some(TRUE)

\* the same on a table that holds one record of the key at most
MergeOnUniqueKey ==
    (\A r, s \in preferences_table : SameKey(r, s) => r = s) => C24_MergeLearned

-----------------------------------------------------------------------------
(* Claims about update_alert_configuration, under SpecAlertConfigs *)

\* the fields the claim allows update_alert_configuration to change
PatchableFields == {"threshold_value", "threshold_period", "notification_method", "is_active"}

\* C25: update_alert_configuration changes only the fields threshold_value,
\* threshold_period, notification_method and is_active, and only of the
\* configuration whose id and username both match: other keys of the update
\* map (alert_type, alert_name, username) change nothing, configurations of
\* other users or ids stay as they were, no configuration appears or
\* disappears, and a map with none of the four keys returns false and
\* changes nothing.
C25_OnlyPatchableFields ==
    call.method = "update_alert_configuration" =>
        /\ {r.id : r \in alert_configurations} = {r.id : r \in call.before}
        /\ Cardinality(alert_configurations) = Cardinality(call.before)
        /\ \A r \in call.before :
              \E s \in alert_configurations :
                 /\ s.id = r.id
                 /\ (r.id # call.alert_id \/ r.username # call.username) => s = r
                 /\ \A k \in DOMAIN r :
                       \/ s[k] = r[k]
                       \/ /\ k \in PatchableFields
                          /\ k \in DOMAIN call.updates
                          /\ s[k] = call.updates[k]
                          /\ call.returned
        /\ (DOMAIN call.updates \cap PatchableFields = {}) =>
              /\ call.returned = FALSE
              /\ alert_configurations = call.before

\* an update that names alert_name beside is_active reached its
\* configuration: is_active changed, alert_name did not
C25_Witness ==
    /\ call.method = "update_alert_configuration"
    /\ call.returned
    /\ "alert_name" \in DOMAIN call.updates
    /\ \E r \in call.before, s \in alert_configurations :
          /\ r.id = call.alert_id /\ r.username = call.username
          /\ s.id = r.id
          /\ r.is_active /\ ~s.is_active
          /\ s.alert_name = r.alert_name
          /\ s.alert_name # call.updates.alert_name

-----------------------------------------------------------------------------
(* Claims about the low_balance check, under SpecAlerts *)

LowBalanceAlertsOf(config) ==
    {i \in 1..Len(call.alerts) :
        /\ call.alerts[i].type = "low_balance"
        /\ call.alerts[i].alert_config_id = Some(config.id)}

\* C26: on every check_alerts call, whatever transaction window the caller
\* supplied, a low_balance alert of priority 4 with deficit = threshold -
\* balance is given for exactly the active low_balance configurations whose
\* threshold_value is greater than the current balance.
C26_LowBalanceAlerts ==
    (pc = "returned" /\ "low_balance" \notin call.env.failing) =>
        \A k \in 1..Len(call.alert_configs) :
            LET config == call.alert_configs[k]
            IN  config.alert_type = "low_balance" =>
                   IF config.threshold_value > call.env.balance
                      THEN /\ Cardinality(LowBalanceAlertsOf(config)) = 1
                           /\ \A i \in LowBalanceAlertsOf(config) :
                                 /\ call.alerts[i].priority = 4
                                 /\ call.alerts[i].data.deficit =
                                       config.threshold_value - call.env.balance
                      ELSE LowBalanceAlertsOf(config) = {}

\* the same for the calls that come with at least one transaction
LowBalanceWithTransactions ==
    (pc = "returned" /\ call.transactions # <<>>) => C26_LowBalanceAlerts

-----------------------------------------------------------------------------
(* Claims about the top category, under SpecCategories *)

\* the buckets that come before c in the fixed order
EarlierCategories(c) ==
    CASE c = SmallPurchases -> {}
      [] c = MediumPurchases -> {SmallPurchases}
      [] c = LargePurchases -> {SmallPurchases, MediumPurchases}
      [] c = VeryLargePurchases -> {SmallPurchases, MediumPurchases, LargePurchases}

\* C27: for a non-empty transaction list analyze_spending_categories returns
\* an insight, with or without an answer of the AI Gateway, whose
\* top_category is the bucket with the largest sum, the earliest of Small,
\* Medium, Large, Very large when sums are equal, and whose top_percentage
\* is top_amount / total_amount * 100, or 0 when total_amount is not
\* positive.
C27_TopCategory ==
    (pc = "returned" /\ call.transactions # <<>>) =>
        /\ call.insight # None
        /\ LET d == Get(call.insight).data
               top == d.top_category
           IN  /\ top \in CategoryNames
               /\ \A c \in CategoryNames : d.categories[c] <= d.categories[top]
               /\ \A c \in EarlierCategories(top) : d.categories[c] < d.categories[top]
               /\ d.top_percentage.den # 0
               /\ IF d.total_amount > 0
                     THEN d.top_percentage.num * d.total_amount
                             = d.categories[top] * 100 * d.top_percentage.den
                     ELSE d.top_percentage.num = 0
               /\ Get(call.insight).description # ""

\* amounts 50, 25, 100 and 0 without an answer of the AI Gateway: Medium
\* leads with 150 of 175
C27_Witness ==
    /\ pc = "returned"
    /\ call.transactions = <<[amount |-> 50], [amount |-> 25], [amount |-> 100], [amount |-> 0]>>
    /\ call.description = None
    /\ call.insight # None
    /\ Get(call.insight).data.top_category = MediumPurchases
    /\ Get(call.insight).data.categories[MediumPurchases] = 150
    /\ Get(call.insight).data.total_amount = 175
    /\ Get(call.insight).data.top_percentage = [num |-> 15000, den |-> 175]

-----------------------------------------------------------------------------
(* generate_insights as a call of its own, with analyses that may fail *)

AnalysisNames == {"spending_trends", "category_analysis", "improvement_analysis"}

\* an analysis whose body raises: its except branch returns None
AnalysisOutcome(name, failing, insight) ==
    IF name \in failing THEN None ELSE insight

\* a variant: the exception of an analysis reaches generate_insights, whose
\* except branch returns []
general_analysis_uncaught(rows, analysis, failing) ==
    IF failing # {} THEN <<>>
    ELSE _general_analysis(rows, analysis)

\* _general_analysis over analyses of which those in failing raise
GeneralAnalysis(rows, analysis, failing) ==
    Collect(AnalysisOutcome("spending_trends", failing,
                            analyze_spending_trends(rows, analysis)))
        \o Collect(AnalysisOutcome("category_analysis", failing,
                                   analyze_spending_categories(rows)))
        \o Collect(AnalysisOutcome("improvement_analysis", failing,
                                   analyze_improvements(rows)))

\* generate_insights over analyses of which those in failing raise
GenerateInsights(rows, intent, analysis, failing) ==
    CASE intent.analysis_type = "spending_trends" ->
            Collect(AnalysisOutcome("spending_trends", failing,
                                    analyze_spending_trends(rows, analysis)))
      [] intent.analysis_type = "category_analysis" ->
            Collect(AnalysisOutcome("category_analysis", failing,
                                    analyze_spending_categories(rows)))
      [] intent.analysis_type = "improvement" ->
            Collect(AnalysisOutcome("improvement_analysis", failing,
                                    analyze_improvements(rows)))
      [] OTHER -> GeneralAnalysis(rows, analysis, failing)

\* the analysis_type of the intent: the four of understand_query and one it
\* never gives
InsightIntents == [analysis_type : AnalysisTypes \cup {"forecast"}]

InitInsights ==
    /\ pc = "generate_insights"
    /\ query = None
    /\ gateway = NoAnswer
    /\ query_intent = None
    /\ QueryIdle
    /\ PrefIdle
    /\ upserts = <<>>
    /\ alert_configurations = {}
    /\ ai_insights = <<>>
    /\ \E rows \in ResultSets, intent \in InsightIntents, analysis \in AnalysisAnswers,
          failing \in SUBSET AnalysisNames :
          call = [data |-> rows, query_intent |-> intent, analysis |-> analysis,
                  failing |-> failing, returned |-> None]

\* InsightGeneratorAgent.generate_insights
GenerateInsightsCall ==
    /\ pc = "generate_insights"
    /\ call' = [call EXCEPT !.returned =
                   Some(GenerateInsights(call.data, call.query_intent, call.analysis,
                                         call.failing))]
    /\ pc' = "returned"
    /\ UNCHANGED queryVars
    /\ UNCHANGED prefVars
    /\ UNCHANGED <<upserts, alert_configurations, ai_insights>>

NextInsights == GenerateInsightsCall

SpecInsights == InitInsights /\ [][NextInsights]_vars

\* the insight of one analysis of the call, None when it failed or had none
ResultOf(name) ==
    IF name \in call.failing THEN None
    ELSE CASE name = "spending_trends" -> analyze_spending_trends(call.data, call.analysis)
           [] name = "category_analysis" -> analyze_spending_categories(call.data)
           [] name = "improvement_analysis" -> analyze_improvements(call.data)

\* C28: a request whose analysis_type is none of spending_trends,
\* category_analysis and improvement runs the three analyses and returns
\* every result that is not null, in the order trend, category, improvement;
\* an analysis that fails or has no result takes nothing away from the
\* results of the other two.
C28_GeneralIsolated ==
    (/\ pc = "returned"
     /\ call.query_intent.analysis_type \notin
           {"spending_trends", "category_analysis", "improvement"}) =>
        Get(call.returned) =
            Collect(ResultOf("spending_trends"))
                \o Collect(ResultOf("category_analysis"))
                \o Collect(ResultOf("improvement_analysis"))

\* the category analysis failed and the trend and improvement insights were
\* returned all the same
C28_Witness ==
    /\ pc = "returned"
    /\ call.query_intent.analysis_type = "general"
    /\ call.failing = {"category_analysis"}
    /\ Len(Get(call.returned)) = 2
    /\ Get(call.returned)[1].type = "spending_trends"
    /\ Get(call.returned)[2].type = "improvement_analysis"

-----------------------------------------------------------------------------
(* The ai_insights table: save_insight, mark_insight_read and the reads *)

\* the number of calls of one behaviour
MaxInsightCalls == 3

\* the row of a new insight: is_read is DEFAULT FALSE
StoredInsight(id, username, insight) ==
    [id |-> id, username |-> username, insight_type |-> insight.type,
     priority |-> insight.priority, is_read |-> FALSE]

\* the insights generate_daily_insights saves
SavedInsights ==
    { [type |-> "category_analysis", priority |-> 2],
      [type |-> "low_balance", priority |-> 4] }

\* a variant: the UPDATE of mark_insight_read without the test of the owner
mark_read_any_owner(table, insight_id, username) ==
    [i \in 1..Len(table) |->
        IF table[i].id = insight_id
        THEN [table[i] EXCEPT !.is_read = TRUE] ELSE table[i]]

\* UPDATE ai_insights SET is_read = TRUE WHERE id = :insight_id AND username = :username
MarkRead(table, insight_id, username) ==
    [i \in 1..Len(table) |->
        IF table[i].id = insight_id /\ table[i].username = username
        THEN [table[i] EXCEPT !.is_read = TRUE] ELSE table[i]]

RECURSIVE ByPriority(_)
\* ORDER BY priority DESC, created_at DESC, over a set of rows
ByPriority(rows) ==
    IF rows = {} THEN <<>>
    ELSE LET top == CHOOSE r \in rows :
                       \A o \in rows : \/ o.priority < r.priority
                                       \/ (o.priority = r.priority /\ o.id <= r.id)
         IN  <<top>> \o ByPriority(rows \ {top})

\* DatabaseManager.get_user_insights
get_user_insights(table, username, limit, unread_only) ==
    LET rows == {table[i] : i \in {j \in 1..Len(table) :
                                     /\ table[j].username = username
                                     /\ (unread_only => ~table[j].is_read)}}
        ordered == ByPriority(rows)
    IN  SubSeq(ordered, 1, IF Len(ordered) < limit THEN Len(ordered) ELSE limit)

InitInsightStore ==
    /\ pc = "ai_insights"
    /\ query = None
    /\ gateway = NoAnswer
    /\ query_intent = None
    /\ QueryIdle
    /\ PrefIdle
    /\ upserts = <<>>
    /\ alert_configurations = {}
    /\ ai_insights = <<>>
    /\ call = [method |-> "none"]

\* one turn of the persist loop of generate_daily_insights: save_insight
\* inserts a row, or the database raises and nothing is written
SaveDailyInsight ==
    /\ pc = "ai_insights"
    /\ served < MaxInsightCalls
    /\ \E username \in Usernames, insight \in SavedInsights, write_ok \in BOOLEAN :
          /\ ai_insights' =
                IF write_ok
                THEN Append(ai_insights, StoredInsight(Len(ai_insights) + 1, username, insight))
                ELSE ai_insights
          /\ call' = [method |-> "save_insight", username |-> username,
                      before |-> ai_insights,
                      returned |-> IF write_ok THEN Some(Len(ai_insights) + 1) ELSE None]
    /\ served' = served + 1
    /\ UNCHANGED <<pc, query, gateway, query_intent, user_preferences, sql_text,
                   sql_query, data, insights, visualizations, log_result, stages,
                   result, user_interactions>>
    /\ UNCHANGED prefVars
    /\ UNCHANGED <<upserts, alert_configurations>>

\* PUT /insights/{insight_id}/read: DatabaseManager.mark_insight_read
MarkInsightRead ==
    /\ pc = "ai_insights"
    /\ served < MaxInsightCalls
    /\ \E insight_id \in 1..MaxInsightCalls, username \in Usernames, write_ok \in BOOLEAN :
          /\ ai_insights' = IF write_ok THEN MarkRead(ai_insights, insight_id, username)
                            ELSE ai_insights
          /\ call' = [method |-> "mark_insight_read", insight_id |-> insight_id,
                      username |-> username, before |-> ai_insights,
                      raised |-> ~write_ok, returned |-> write_ok]
    /\ served' = served + 1
    /\ UNCHANGED <<pc, query, gateway, query_intent, user_preferences, sql_text,
                   sql_query, data, insights, visualizations, log_result, stages,
                   result, user_interactions>>
    /\ UNCHANGED prefVars
    /\ UNCHANGED <<upserts, alert_configurations>>

\* GET /insights: get_user_insights(username, limit 20, unread_only)
ListInsights ==
    /\ pc = "ai_insights"
    /\ served < MaxInsightCalls
    /\ \E username \in Usernames, unread_only \in BOOLEAN :
          call' = [method |-> "get_user_insights", username |-> username,
                   before |-> ai_insights,
                   returned |-> get_user_insights(ai_insights, username, 20, unread_only)]
    /\ served' = served + 1
    /\ UNCHANGED <<pc, query, gateway, query_intent, user_preferences, sql_text,
                   sql_query, data, insights, visualizations, log_result, stages,
                   result, user_interactions>>
    /\ UNCHANGED prefVars
    /\ UNCHANGED <<upserts, alert_configurations, ai_insights>>

\* get_user_dashboard_data: the unread insights of the user, 10 at most
DashboardInsights ==
    /\ pc = "ai_insights"
    /\ served < MaxInsightCalls
    /\ \E username \in Usernames :
          call' = [method |-> "get_user_dashboard_data", username |-> username,
                   before |-> ai_insights,
                   returned |-> get_user_insights(ai_insights, username, 10, TRUE)]
    /\ served' = served + 1
    /\ UNCHANGED <<pc, query, gateway, query_intent, user_preferences, sql_text,
                   sql_query, data, insights, visualizations, log_result, stages,
                   result, user_interactions>>
    /\ UNCHANGED prefVars
    /\ UNCHANGED <<upserts, alert_configurations, ai_insights>>

NextInsightStore ==
    SaveDailyInsight \/ MarkInsightRead \/ ListInsights \/ DashboardInsights

SpecInsightStore == InitInsightStore /\ [][NextInsightStore]_vars

\* C29: is_read of an insight changes only through mark_insight_read, and
\* mark_insight_read(insight_id, username) sets it only on the record whose
\* id and owner both match: with the id of another user's insight or an
\* unknown id it leaves every record as it was and, the database having
\* accepted the statement, still reports success;
\* saving a daily insight, assembling the dashboard and listing insights
\* change no field of an existing insight.
C29_OnlyMarkReadChanges ==
    call.method # "none" =>
        /\ Len(ai_insights) >= Len(call.before)
        /\ \A i \in 1..Len(call.before) :
              LET old == call.before[i]
                  new == ai_insights[i]
              IN  \/ new = old
                  \/ /\ call.method = "mark_insight_read"
                     /\ old.id = call.insight_id
                     /\ old.username = call.username
                     /\ new = [old EXCEPT !.is_read = TRUE]
        /\ (/\ call.method = "mark_insight_read"
            /\ \A i \in 1..Len(call.before) :
                  ~(call.before[i].id = call.insight_id
                    /\ call.before[i].username = call.username))
           => /\ ai_insights = call.before
              /\ ~call.raised => call.returned
        /\ call.method \in {"get_user_insights", "get_user_dashboard_data"}
              => ai_insights = call.before
        /\ call.method = "save_insight"
              => SubSeq(ai_insights, 1, Len(call.before)) = call.before

\* mark_insight_read was called with the id of an unread insight of the
\* other user: it reported success and no record changed
C29_Witness ==
    /\ call.method = "mark_insight_read"
    /\ call.returned
    /\ \E i \in 1..Len(call.before) :
          /\ call.before[i].id = call.insight_id
          /\ call.before[i].username # call.username
          /\ ~call.before[i].is_read
    /\ ai_insights = call.before

-----------------------------------------------------------------------------
(* Claims about the visualizations of a query, under Spec *)

\* C30: in the query workflow the visualizations are empty whenever the
\* intent has needs_visualization false, also when the insights carry a
\* visualization_config of their own; when it is true they are the
\* configuration built for the intent, if one was built, followed by one
\* enhanced configuration per insight that carries a visualization_config,
\* in the order of the insights.
C30_VisualizationsOnlyWhenNeeded ==
    InStages("insights") =>
        /\ ~Get(query_intent).needs_visualization => visualizations = <<>>
        /\ InStages("visualize") =>
              LET n == Len(insights)
                  m == Len(visualizations)
              IN  /\ Get(query_intent).needs_visualization
                  /\ m \in {n, n + 1}
                  /\ SubSeq(visualizations, m - n + 1, m) = EnhanceAll(insights)
                  /\ m = n + 1 =>
                        /\ "insight_type" \notin DOMAIN visualizations[1]
                        /\ visualizations[1].type \in
                              {"trend_analysis", "category_analysis",
                               "improvement_analysis", "general_analysis"}

\* a request that succeeded with needs_visualization false: its insights
\* carry a visualization_config and its visualizations are empty
C30_Witness ==
    /\ pc = "done"
    /\ result.success = TRUE
    /\ ~Get(query_intent).needs_visualization
    /\ insights # <<>>
    /\ \A i \in 1..Len(insights) : "visualization_config" \in DOMAIN insights[i]
    /\ visualizations = <<>>
    /\ result.visualizations = <<>>

=============================================================================
